---- MODULE Spec2Model ----
(***************************************************************************)
(* Admission gate of the carbon-aware scheduler plugin.                    *)
(*                                                                         *)
(* Time is counted in minutes since the first instant of the run, whose    *)
(* wall-clock position in the week is ClockStart (minutes after Sunday     *)
(* 00:00).  Carbon intensities and thresholds are counted in thousandths   *)
(* of a gCO2eq/kWh, so that the two-decimal formatting of the              *)
(* initial-intensity annotation is a real conversion.                      *)
(*                                                                         *)
(* Specifications:                                                         *)
(*   Spec          one PreFilter call at a time (carbonawarescheduler.go)  *)
(*   ConcSpec      several calls and the health check worker interleaved   *)
(*   FairSpec      one pod retried by the host while the clock advances    *)
(*   CacheSpec     the carbon cache and the Genability rate cache          *)
(*   GardenerSpec  PreFilter of the compute-gardener revision, with the    *)
(*                 pricing check, PostBind and the completion of a pod     *)
(*   ThresholdSpec one call at a time, pods differing in their threshold   *)
(*   OverrideSpec  pods with a max-scheduling-delay annotation             *)
(*   ShutdownSpec  Close and the node deletion handler                     *)
(*   RepeatSpec    PreFilter called twice in a row for one pod             *)
(*   WrapSpec      peak.Scheduler around the full hours of a week          *)
(*   InlineSpec    PreFilter's own peak test around the full hours         *)
(*   ValidateSpec  the two validators of a schedule's day list             *)
(*   StartupSpec   New and LoadFromEnv over the environment                *)
(*   RequestSpec   the upstream request of getElectricityData              *)
(*   BindSpec      PreFilter and PostBind with every admitted pod bound    *)
(*   ProbeSpec     the health check worker until shutdown, with fairness   *)
(*   DrainSpec     Close with calls in flight                              *)
(*   TearSpec      GenabilityClient.IsPeakPeriod beside GetCurrentRate     *)
(*   AnnotatedSpec pods with their own threshold during peak hours         *)
(*   TransitionSpec peak.Scheduler.GetNextPeakTransition around full hours *)
(***************************************************************************)
EXTENDS Integers, Sequences, FiniteSets, TLC

(* ------------------------------------------------------------------ *)
(* Bounds of the model                                                 *)
(* ------------------------------------------------------------------ *)
MaxTime == 6
NumCallers == 2
MaxPending == 2
ClockStart == 2397
LeapMinutes == 55

(* ------------------------------------------------------------------ *)
(* Program constants                                                   *)
(* ------------------------------------------------------------------ *)
CacheValidityDuration == 5
MaxCacheAge == 60
PriceValidityDuration == 60
defaultBaseThreshold == 150000
defaultMaxDelay == 1440
defaultMaxConcurrentPods == 2

NoTime == -1
NoEntry == [data |-> -1, timestamp |-> -1]
NoAnn == [kind |-> "absent"]
NoRet == [code |-> "none", label |-> "none", reason |-> "none", late |-> FALSE,
          lateOwn |-> FALSE,
          skip |-> "", priceSkip |-> "", thr |-> NoAnn, fullAtCall |-> FALSE,
          obtained |-> FALSE, slot |-> FALSE, full |-> FALSE, savings |-> 0,
          gauge |-> -1]
NoServe == [src |-> "none", stamp |-> -1, at |-> -1]
NoTracked == [creation |-> -1, skip |-> "none"]
NoPricing == [Enabled |-> FALSE, Impl |-> FALSE, Schedules |-> <<>>]
NoPower == -1

(* ------------------------------------------------------------------ *)
(* Strings: a Go string is a sequence of one-character strings          *)
(* ------------------------------------------------------------------ *)
DigitChars == <<"0", "1", "2", "3", "4", "5", "6", "7", "8", "9">>

IsDigit(c) == \E i \in 1..10 : DigitChars[i] = c

DigitVal(c) == (CHOOSE i \in 1..10 : DigitChars[i] = c) - 1

RECURSIVE DigitsVal(_)
DigitsVal(s) ==
  IF s = <<>> THEN 0
  ELSE 10 * DigitsVal(SubSeq(s, 1, Len(s) - 1)) + DigitVal(s[Len(s)])

AllDigits(s) == s # <<>> /\ \A i \in 1..Len(s) : IsDigit(s[i])

(* strconv.Atoi: optional sign, then at least one digit, nothing else *)
Atoi(s) ==
  LET signed == s # <<>> /\ s[1] \in {"+", "-"}
      body == IF signed THEN Tail(s) ELSE s
  IN IF AllDigits(body)
     THEN [err |-> FALSE,
           num |-> IF signed /\ s[1] = "-" THEN 0 - DigitsVal(body) ELSE DigitsVal(body)]
     ELSE [err |-> TRUE, num |-> 0]

(* strings.Split(s, sep) for a one-character separator *)
RECURSIVE Split(_, _)
Split(s, sep) ==
  IF \E i \in 1..Len(s) : s[i] = sep
  THEN LET i == CHOOSE k \in 1..Len(s) : s[k] = sep /\ \A j \in 1..(k - 1) : s[j] # sep
       IN <<SubSeq(s, 1, i - 1)>> \o Split(SubSeq(s, i + 1, Len(s)), sep)
  ELSE <<s>>

(* time.Parse("15:04", s): one or two hour digits, a colon, two minute digits *)
Parse1504(s) ==
  LET parts == Split(s, ":")
  IN IF /\ Len(parts) = 2
        /\ Len(parts[1]) \in {1, 2} /\ AllDigits(parts[1])
        /\ Len(parts[2]) = 2 /\ AllDigits(parts[2])
        /\ DigitsVal(parts[1]) <= 23 /\ DigitsVal(parts[2]) <= 59
     THEN [err |-> FALSE, hour |-> DigitsVal(parts[1]), minute |-> DigitsVal(parts[2])]
     ELSE [err |-> TRUE, hour |-> 0, minute |-> 0]

(* t.Format("15:04"): two hour digits, a colon, two minute digits *)
Format1504(h, m) ==
  <<DigitChars[(h \div 10) + 1], DigitChars[(h % 10) + 1], ":",
    DigitChars[(m \div 10) + 1], DigitChars[(m % 10) + 1]>>

CharRank(c) == IF c = ":" THEN 10 ELSE DigitVal(c)

(* Go's string comparison a <= b on strings of digits and colons *)
RECURSIVE StrLeq(_, _)
StrLeq(a, b) ==
  IF a = <<>> THEN TRUE
  ELSE IF b = <<>> THEN FALSE
  ELSE IF CharRank(a[1]) < CharRank(b[1]) THEN TRUE
  ELSE IF CharRank(a[1]) > CharRank(b[1]) THEN FALSE
  ELSE StrLeq(Tail(a), Tail(b))

(* ------------------------------------------------------------------ *)
(* Clock                                                               *)
(* ------------------------------------------------------------------ *)
Weekday(t) == ((ClockStart + t) \div 1440) % 7
HourOf(t) == ((ClockStart + t) % 1440) \div 60
MinuteOf(t) == (ClockStart + t) % 60

(* time.Since(t0) read at instant t *)
Since(t, t0) == t - t0

(* ------------------------------------------------------------------ *)
(* Annotation values.  A numeric annotation is one of                  *)
(*   NoAnn                        the key is absent                     *)
(*   [kind |-> "num", val |-> n]  a decimal number, n thousandths       *)
(*   [kind |-> "numjunk", ...]    a number followed by other characters *)
(*   [kind |-> "bad"]             text that does not start with a number*)
(* ------------------------------------------------------------------ *)
Num(n) == [kind |-> "num", val |-> n]
NumJunk(n) == [kind |-> "numjunk", val |-> n]
BadAnn == [kind |-> "bad"]

(* fmt.Sscanf(val, "%f", &x): reads the leading number, ignores the rest *)
SscanfF(a) ==
  IF a.kind \in {"num", "numjunk"} THEN [err |-> FALSE, val |-> a.val]
  ELSE [err |-> TRUE, val |-> 0]

(* strconv.ParseFloat(val, 64): the whole text must be a number *)
ParseFloat(a) ==
  IF a.kind = "num" THEN [err |-> FALSE, val |-> a.val]
  ELSE [err |-> TRUE, val |-> 0]

(* fmt.Sprintf("%.2f", x): x rounded to hundredths *)
Format2(x) == Num(((x + 5) \div 10) * 10)

(* ------------------------------------------------------------------ *)
(* Configuration read by New (carbonawarescheduler.go)                  *)
(* ------------------------------------------------------------------ *)
DelayLimit == 3
OwnDelay == 1
WrapMargin == 2
MaxDayLen == 3

maxSchedulingDelay == DelayLimit

baseCarbonIntensityThreshold == defaultBaseThreshold

peakCarbonIntensityThreshold == (baseCarbonIntensityThreshold * 75) \div 100

(* MAX_CONCURRENT_PODS: unset keeps the default, a positive integer is taken,
   anything else makes New fail *)
NewMaxConcurrentPods(env) ==
  IF env = <<>> THEN [err |-> FALSE, val |-> defaultMaxConcurrentPods]
  ELSE LET mp == Atoi(env)
       IN IF ~mp.err /\ mp.num > 0 THEN [err |-> FALSE, val |-> mp.num]
          ELSE [err |-> TRUE, val |-> 0]

MaxPodsEnv == {<<>>, <<"1">>, <<"0">>, <<"-", "1">>, <<"x">>}

WeekdayPeak == [DayOfWeek |-> <<"1", "-", "5">>,
                StartTime |-> <<"1", "6", ":", "0", "0">>,
                EndTime |-> <<"2", "1", ":", "0", "0">>]

PeakConfigs == {<<>>, <<WeekdayPeak>>}

(* the inline peak-hour test of PreFilter: a schedule matches when the weekday
   lies in one of its day items and the HH:MM text of now lies between the
   HH:MM texts of start and end, both ends included *)
DayItemMatches(item, wd) ==
  LET dayRange == Split(item, "-")
      start == Atoi(dayRange[1]).num
      end == IF Len(dayRange) > 1 THEN Atoi(dayRange[2]).num ELSE start
  IN wd >= start /\ wd <= end

ScheduleMatches(schedule, t) ==
  LET days == Split(schedule.DayOfWeek, ",")
      startTime == Parse1504(schedule.StartTime)
      endTime == Parse1504(schedule.EndTime)
      currentTime == Format1504(HourOf(t), MinuteOf(t))
  IN \E i \in 1..Len(days) :
       /\ DayItemMatches(days[i], Weekday(t))
       /\ StrLeq(Format1504(startTime.hour, startTime.minute), currentTime)
       /\ StrLeq(currentTime, Format1504(endTime.hour, endTime.minute))

(* a variant in which no instant is a peak hour *)
IsPeakHourNever(schedules, t) == FALSE

IsPeakHour(schedules, t) ==
  \E i \in 1..Len(schedules) : ScheduleMatches(schedules[i], t)

(* ------------------------------------------------------------------ *)
(* State of the plugin (carbonawarescheduler.go) and of its host       *)
(* ------------------------------------------------------------------ *)
VARIABLES
  now,                  \* the wall clock
  cache,                \* es.cache: NoEntry (nil) or [data, timestamp]
  currentlyScheduling,  \* es.currentlyScheduling
  maxConcurrentPods,    \* es.maxConcurrentPods
  peakSchedules,        \* es.peakSchedules
  pc,                   \* where each caller stands; caller 0 is the health check worker
  inflight,             \* the pod of each PreFilter call in progress
  holders,              \* host: admitted pods that took a slot and await their bind
  riders,               \* host: admitted pods that took no slot and await their bind
  ret,                  \* what the PreFilter call that returned in this step returned
  served,               \* how the cache in front of an upstream API answered in this step
  tracked,              \* host: the pod whose retries are followed, if one is
  priceCache,           \* GenabilityClient.cache: NoEntry or [data, timestamp]
  pricing,              \* the pricing section of the configuration
  stopCh,               \* es.stopCh: "open" or "closed"
  panicked,             \* the process died of a run-time panic
  powerMetrics,         \* cs.powerMetrics: the baseline power stored for the pod, in watts
  peakEnabled,          \* peak.Scheduler: config.Enabled
  tested                \* GenabilityClient.IsPeakPeriod: the entry whose age it tested

vars == <<now, cache, currentlyScheduling, maxConcurrentPods, peakSchedules,
          pc, inflight, holders, riders, ret, served, tracked, priceCache, pricing,
          stopCh, panicked, powerMetrics, peakEnabled, tested>>

(* what the carbon-aware plugin of carbonawarescheduler.go never touches *)
aux == <<tracked, priceCache, pricing, stopCh, panicked, powerMetrics, peakEnabled, tested>>

Worker == 0
Callers == 1..NumCallers
Threads == {Worker} \cup Callers

Intensities == {112500, 150000, 150006}

FailResp == [ok |-> FALSE, data |-> 0]
OkResp(i) == [ok |-> TRUE, data |-> i]
Responses == {FailResp} \cup {OkResp(i) : i \in Intensities}

NoPod == [skip |-> "", priceSkip |-> "", thr |-> NoAnn, initial |-> NoAnn,
          late |-> FALSE, lateOwn |-> FALSE, full |-> FALSE, updateErr |-> FALSE]

ThrAnns == {NoAnn, BadAnn, Num(120000)}
InitAnns == {NoAnn, Format2(150006)}

Pods == [creation : {NoTime, 0}, skip : {"", "true"}, priceSkip : {"", "true"},
         thr : ThrAnns, initial : InitAnns]

(* the pod's age exceeds the limit: what the delay escape hatch is about *)
PastMaxDelay(p, t) == p.creation # NoTime /\ t - p.creation > maxSchedulingDelay

(* the pod's age exceeds the delay of its own max-scheduling-delay annotation,
   counted in minutes *)
PastOwnDelay(p, t) ==
  /\ "maxDelay" \in DOMAIN p
  /\ p.maxDelay # NoAnn
  /\ p.creation # NoTime
  /\ t - p.creation > p.maxDelay.val

(* ------------------------------------------------------------------ *)
(* PreFilter, first part: max-delay check and opt-out                   *)
(* ------------------------------------------------------------------ *)
(* a variant that measures the age against the built-in default instead of
   the configured limit *)
hasExceededMaxDelayDefault(p, t) ==
  p.creation # NoTime /\ Since(t, p.creation) > defaultMaxDelay

hasExceededMaxDelay(p, t) ==
  p.creation # NoTime /\ Since(t, p.creation) > maxSchedulingDelay

isOptedOut(p) == p.skip = "true"

(* what a PreFilter call returned and did: the status code, the label of the
   scheduling-attempt counter it incremented, why, what it knew of the pod,
   whether it obtained a carbon reading, whether it took a slot, whether the
   cap was reached when it returned, the savings it recorded and the value it
   set the intensity gauge to *)
Result(code, label, reason, pod, obtained, slot, full, savings, gauge) ==
  [code |-> code, label |-> label, reason |-> reason, late |-> pod.late,
   lateOwn |-> pod.lateOwn,
   skip |-> pod.skip, priceSkip |-> pod.priceSkip, thr |-> pod.thr,
   fullAtCall |-> pod.full,
   obtained |-> obtained, slot |-> slot, full |-> full, savings |-> savings,
   gauge |-> gauge]

Pending == holders + riders + Cardinality({c \in Callers : pc[c] # "idle"})

(* a variant that stores the initial intensity whether or not the pod has one *)
PreFilterEnterAlwaysStores(c, p) ==
  /\ UNCHANGED aux
  /\ pc[c] = "idle"
  /\ Pending < MaxPending
  /\ p.creation <= now
  /\ LET q == [skip |-> p.skip, priceSkip |-> p.priceSkip, thr |-> p.thr,
               initial |-> p.initial, late |-> PastMaxDelay(p, now),
               lateOwn |-> PastOwnDelay(p, now),
               full |-> currentlyScheduling >= maxConcurrentPods,
               updateErr |-> FALSE]
     IN IF hasExceededMaxDelay(p, now)
        THEN /\ ret' = Result("Success", "max_delay_exceeded", "max_delay", q,
                              FALSE, FALSE, FALSE, 0, -1)
             /\ riders' = riders + 1
             /\ UNCHANGED <<pc, inflight>>
        ELSE IF isOptedOut(p)
        THEN /\ ret' = Result("Success", "skipped", "opt_out", q,
                              FALSE, FALSE, FALSE, 0, -1)
             /\ riders' = riders + 1
             /\ UNCHANGED <<pc, inflight>>
        ELSE /\ pc' = [pc EXCEPT ![c] = "init_get"]
             /\ inflight' = [inflight EXCEPT ![c] = q]
             /\ ret' = NoRet
             /\ UNCHANGED riders
  /\ served' = NoServe
  /\ UNCHANGED <<now, cache, currentlyScheduling, maxConcurrentPods, peakSchedules, holders>>

PreFilterEnter(c, p) ==
  /\ UNCHANGED aux
  /\ pc[c] = "idle"
  /\ Pending < MaxPending
  /\ p.creation <= now
  /\ LET q == [skip |-> p.skip, priceSkip |-> p.priceSkip, thr |-> p.thr,
               initial |-> p.initial, late |-> PastMaxDelay(p, now),
               lateOwn |-> PastOwnDelay(p, now),
               full |-> currentlyScheduling >= maxConcurrentPods,
               updateErr |-> FALSE]
     IN IF hasExceededMaxDelay(p, now)
        THEN /\ ret' = Result("Success", "max_delay_exceeded", "max_delay", q,
                              FALSE, FALSE, FALSE, 0, -1)
             /\ riders' = riders + 1
             /\ UNCHANGED <<pc, inflight>>
        ELSE IF isOptedOut(p)
        THEN /\ ret' = Result("Success", "skipped", "opt_out", q,
                              FALSE, FALSE, FALSE, 0, -1)
             /\ riders' = riders + 1
             /\ UNCHANGED <<pc, inflight>>
        ELSE /\ pc' = [pc EXCEPT ![c] = IF p.initial = NoAnn THEN "init_get" ELSE "cur_get"]
             /\ inflight' = [inflight EXCEPT ![c] = q]
             /\ ret' = NoRet
             /\ UNCHANGED riders
  /\ served' = NoServe
  /\ UNCHANGED <<now, cache, currentlyScheduling, maxConcurrentPods, peakSchedules, holders>>

(* ------------------------------------------------------------------ *)
(* PreFilter, last part: threshold, peak hours, intensity, concurrency  *)
(* ------------------------------------------------------------------ *)
(* a variant that looks at the concurrency cap before the carbon intensity *)
DecideGateFirst(q, data, t, cs, cap, schedules) ==
  LET parsed == IF q.thr = NoAnn
                THEN [err |-> FALSE, val |-> baseCarbonIntensityThreshold]
                ELSE SscanfF(q.thr)
      isPeakHour == IsPeakHour(schedules, t)
      currentThreshold == IF isPeakHour THEN peakCarbonIntensityThreshold ELSE parsed.val
  IN IF cs >= cap
     THEN Result("Unschedulable", "none", "concurrency", q, TRUE, FALSE, TRUE, 0, data)
     ELSE IF parsed.err
     THEN Result("Error", "invalid_threshold", "invalid_threshold", q,
                 TRUE, FALSE, FALSE, 0, data)
     ELSE IF data > currentThreshold
     THEN Result("Unschedulable", "intensity_exceeded",
                 IF isPeakHour THEN "intensity_peak" ELSE "intensity_base", q,
                 TRUE, FALSE, FALSE, data - currentThreshold, data)
     ELSE Result("Success", "success", "admitted", q, TRUE, TRUE, FALSE, 0, data)

(* a variant that defers already when the intensity equals the threshold *)
DecideInclusive(q, data, t, cs, cap, schedules) ==
  LET parsed == IF q.thr = NoAnn
                THEN [err |-> FALSE, val |-> baseCarbonIntensityThreshold]
                ELSE SscanfF(q.thr)
      isPeakHour == IsPeakHour(schedules, t)
      currentThreshold == IF isPeakHour THEN peakCarbonIntensityThreshold ELSE parsed.val
  IN IF parsed.err
     THEN Result("Error", "invalid_threshold", "invalid_threshold", q,
                 TRUE, FALSE, cs >= cap, 0, data)
     ELSE IF data >= currentThreshold
     THEN Result("Unschedulable", "intensity_exceeded",
                 IF isPeakHour THEN "intensity_peak" ELSE "intensity_base", q,
                 TRUE, FALSE, cs >= cap, data - currentThreshold, data)
     ELSE IF cs >= cap
     THEN Result("Unschedulable", "none", "concurrency", q, TRUE, FALSE, TRUE, 0, data)
     ELSE Result("Success", "success", "admitted", q, TRUE, TRUE, FALSE, 0, data)

(* a variant that keeps one slot free *)
DecideSpareSlot(q, data, t, cs, cap, schedules) ==
  LET parsed == IF q.thr = NoAnn
                THEN [err |-> FALSE, val |-> baseCarbonIntensityThreshold]
                ELSE SscanfF(q.thr)
      isPeakHour == IsPeakHour(schedules, t)
      currentThreshold == IF isPeakHour THEN peakCarbonIntensityThreshold ELSE parsed.val
      initialIntensity == ParseFloat(q.initial)
  IN IF parsed.err
     THEN Result("Error", "invalid_threshold", "invalid_threshold", q,
                 TRUE, FALSE, cs >= cap, 0, data)
     ELSE IF data > currentThreshold
     THEN Result("Unschedulable", "intensity_exceeded",
                 IF isPeakHour THEN "intensity_peak" ELSE "intensity_base", q,
                 TRUE, FALSE, cs >= cap, data - currentThreshold, data)
     ELSE IF cs + 1 >= cap
     THEN Result("Unschedulable", "none", "concurrency", q, TRUE, FALSE, cs >= cap, 0, data)
     ELSE Result("Success", "success", "admitted", q, TRUE, TRUE, FALSE,
                 IF ~initialIntensity.err /\ initialIntensity.val > data
                 THEN initialIntensity.val - data ELSE 0,
                 data)

(* a variant in which a pod's own threshold outlives the peak hours *)
DecideOwnThreshold(q, data, t, cs, cap, schedules) ==
  LET parsed == IF q.thr = NoAnn
                THEN [err |-> FALSE, val |-> baseCarbonIntensityThreshold]
                ELSE SscanfF(q.thr)
      isPeakHour == IsPeakHour(schedules, t)
      currentThreshold == IF isPeakHour /\ q.thr = NoAnn THEN peakCarbonIntensityThreshold
                          ELSE parsed.val
      initialIntensity == ParseFloat(q.initial)
  IN IF parsed.err
     THEN Result("Error", "invalid_threshold", "invalid_threshold", q,
                 TRUE, FALSE, cs >= cap, 0, data)
     ELSE IF data > currentThreshold
     THEN Result("Unschedulable", "intensity_exceeded",
                 IF isPeakHour THEN "intensity_peak" ELSE "intensity_base", q,
                 TRUE, FALSE, cs >= cap, data - currentThreshold, data)
     ELSE IF cs >= cap
     THEN Result("Unschedulable", "none", "concurrency", q, TRUE, FALSE, TRUE, 0, data)
     ELSE Result("Success", "success", "admitted", q, TRUE, TRUE, FALSE,
                 IF ~initialIntensity.err /\ initialIntensity.val > data
                 THEN initialIntensity.val - data ELSE 0,
                 data)

(* a variant that turns a failed update of the pod into an error *)
DecideNeedsUpdate(q, data, t, cs, cap, schedules) ==
  LET parsed == IF q.thr = NoAnn
                THEN [err |-> FALSE, val |-> baseCarbonIntensityThreshold]
                ELSE SscanfF(q.thr)
      isPeakHour == IsPeakHour(schedules, t)
      currentThreshold == IF isPeakHour THEN peakCarbonIntensityThreshold ELSE parsed.val
      initialIntensity == ParseFloat(q.initial)
  IN IF q.updateErr
     THEN Result("Error", "error", "update_failed", q, TRUE, FALSE, cs >= cap, 0, data)
     ELSE IF parsed.err
     THEN Result("Error", "invalid_threshold", "invalid_threshold", q,
                 TRUE, FALSE, cs >= cap, 0, data)
     ELSE IF data > currentThreshold
     THEN Result("Unschedulable", "intensity_exceeded",
                 IF isPeakHour THEN "intensity_peak" ELSE "intensity_base", q,
                 TRUE, FALSE, cs >= cap, data - currentThreshold, data)
     ELSE IF cs >= cap
     THEN Result("Unschedulable", "none", "concurrency", q, TRUE, FALSE, TRUE, 0, data)
     ELSE Result("Success", "success", "admitted", q, TRUE, TRUE, FALSE,
                 IF ~initialIntensity.err /\ initialIntensity.val > data
                 THEN initialIntensity.val - data ELSE 0,
                 data)

Decide(q, data, t, cs, cap, schedules) ==
  LET parsed == IF q.thr = NoAnn
                THEN [err |-> FALSE, val |-> baseCarbonIntensityThreshold]
                ELSE SscanfF(q.thr)
      isPeakHour == IsPeakHour(schedules, t)
      currentThreshold == IF isPeakHour THEN peakCarbonIntensityThreshold ELSE parsed.val
      initialIntensity == ParseFloat(q.initial)
  IN IF parsed.err
     THEN Result("Error", "invalid_threshold", "invalid_threshold", q,
                 TRUE, FALSE, cs >= cap, 0, data)
     ELSE IF data > currentThreshold
     THEN Result("Unschedulable", "intensity_exceeded",
                 IF isPeakHour THEN "intensity_peak" ELSE "intensity_base", q,
                 TRUE, FALSE, cs >= cap, data - currentThreshold, data)
     ELSE IF cs >= cap
     THEN Result("Unschedulable", "none", "concurrency", q, TRUE, FALSE, TRUE, 0, data)
     ELSE Result("Success", "success", "admitted", q, TRUE, TRUE, FALSE,
                 IF ~initialIntensity.err /\ initialIntensity.val > data
                 THEN initialIntensity.val - data ELSE 0,
                 data)

(* what a caller does with the reading getElectricityData returned *)
AfterGet(c, data) ==
  IF pc[c] \in {"init_get", "init_fetch"}
  THEN /\ \E failed \in BOOLEAN :
            inflight' = [inflight EXCEPT ![c].initial = Format2(data),
                                         ![c].updateErr = failed]
       /\ pc' = [pc EXCEPT ![c] = "cur_get"]
       /\ ret' = NoRet
       /\ UNCHANGED <<currentlyScheduling, holders>>
  ELSE IF pc[c] \in {"cur_get", "cur_fetch"}
  THEN LET res == Decide(inflight[c], data, now, currentlyScheduling,
                         maxConcurrentPods, peakSchedules)
       IN /\ ret' = res
          /\ currentlyScheduling' = IF res.slot THEN currentlyScheduling + 1
                                    ELSE currentlyScheduling
          /\ holders' = IF res.code = "Success" THEN holders + 1 ELSE holders
          /\ pc' = [pc EXCEPT ![c] = "idle"]
          /\ inflight' = [inflight EXCEPT ![c] = NoPod]
  ELSE /\ pc' = [pc EXCEPT ![c] = "idle"]
       /\ ret' = NoRet
       /\ UNCHANGED <<inflight, currentlyScheduling, holders>>

(* a variant that counts the failed call as one in flight *)
AfterGetErrorCounted(c) ==
  /\ pc' = [pc EXCEPT ![c] = "idle"]
  /\ IF c = Worker
     THEN ret' = NoRet /\ UNCHANGED inflight
     ELSE /\ ret' = Result("Error", "error", "api_error", inflight[c],
                           TRUE, FALSE, currentlyScheduling >= maxConcurrentPods, 0, -1)
          /\ inflight' = [inflight EXCEPT ![c] = NoPod]
  /\ currentlyScheduling' = currentlyScheduling + 1
  /\ UNCHANGED holders

(* what a caller does when getElectricityData returned an error *)
AfterGetError(c) ==
  /\ pc' = [pc EXCEPT ![c] = "idle"]
  /\ IF c = Worker
     THEN ret' = NoRet /\ UNCHANGED inflight
     ELSE /\ ret' = Result("Error", "error", "api_error", inflight[c],
                           TRUE, FALSE, currentlyScheduling >= maxConcurrentPods, 0, -1)
          /\ inflight' = [inflight EXCEPT ![c] = NoPod]
  /\ UNCHANGED <<currentlyScheduling, holders>>

(* ------------------------------------------------------------------ *)
(* getElectricityData                                                  *)
(* ------------------------------------------------------------------ *)
(* a variant that still accepts an entry exactly as old as the validity *)
CacheValidInclusive(entry, t) ==
  entry # NoEntry /\ Since(t, entry.timestamp) <= CacheValidityDuration

CacheValid(entry, t) ==
  entry # NoEntry /\ Since(t, entry.timestamp) < CacheValidityDuration

GetPcs == {"init_get", "cur_get", "probe_get"}
FetchPcs == {"init_fetch", "cur_fetch", "probe_fetch"}

FetchPc(p) == IF p = "init_get" THEN "init_fetch"
              ELSE IF p = "cur_get" THEN "cur_fetch" ELSE "probe_fetch"

(* the read of the cache under the read lock *)
GetElectricityDataCheck(c) ==
  /\ UNCHANGED aux
  /\ pc[c] \in GetPcs
  /\ IF CacheValid(cache, now)
     THEN /\ served' = [src |-> "cache", stamp |-> cache.timestamp, at |-> now]
          /\ AfterGet(c, cache.data)
     ELSE /\ served' = [src |-> "miss", stamp |-> cache.timestamp, at |-> now]
          /\ pc' = [pc EXCEPT ![c] = FetchPc(pc[c])]
          /\ ret' = NoRet
          /\ UNCHANGED <<inflight, currentlyScheduling, holders>>
  /\ UNCHANGED <<now, cache, maxConcurrentPods, peakSchedules, riders>>

(* a variant that drops the cache entry when the request fails *)
GetElectricityDataFetchEvicts(c, r) ==
  /\ UNCHANGED aux
  /\ pc[c] \in FetchPcs
  /\ IF r.ok
     THEN /\ cache' = [data |-> r.data, timestamp |-> now]
          /\ served' = [src |-> "api", stamp |-> cache.timestamp, at |-> now]
          /\ AfterGet(c, r.data)
     ELSE /\ served' = [src |-> "error", stamp |-> cache.timestamp, at |-> now]
          /\ AfterGetError(c)
          /\ cache' = NoEntry
  /\ UNCHANGED <<now, maxConcurrentPods, peakSchedules, riders>>

(* the upstream request returns; a decoded 200 response is stored *)
GetElectricityDataFetch(c, r) ==
  /\ UNCHANGED aux
  /\ pc[c] \in FetchPcs
  /\ IF r.ok
     THEN /\ cache' = [data |-> r.data, timestamp |-> now]
          /\ served' = [src |-> "api", stamp |-> cache.timestamp, at |-> now]
          /\ AfterGet(c, r.data)
     ELSE /\ served' = [src |-> "error", stamp |-> cache.timestamp, at |-> now]
          /\ AfterGetError(c)
          /\ UNCHANGED cache
  /\ UNCHANGED <<now, maxConcurrentPods, peakSchedules, riders>>

(* a variant of the worker whose select does not look at the stop channel *)
HealthCheckUnguarded ==
  /\ UNCHANGED aux
  /\ pc[Worker] = "idle"
  /\ pc' = [pc EXCEPT ![Worker] = "probe_get"]
  /\ ret' = NoRet
  /\ served' = NoServe
  /\ UNCHANGED <<now, cache, currentlyScheduling, maxConcurrentPods, peakSchedules,
                 inflight, holders, riders>>

(* the health check worker's timer fires and it calls Check *)
HealthCheck ==
  /\ UNCHANGED aux
  /\ stopCh = "open"
  /\ pc[Worker] = "idle"
  /\ pc' = [pc EXCEPT ![Worker] = "probe_get"]
  /\ ret' = NoRet
  /\ served' = NoServe
  /\ UNCHANGED <<now, cache, currentlyScheduling, maxConcurrentPods, peakSchedules,
                 inflight, holders, riders>>

(* ------------------------------------------------------------------ *)
(* The host after an admission                                         *)
(* ------------------------------------------------------------------ *)
(* a variant that decrements without looking at the count *)
DecrementUnguarded(cs) == cs - 1

Decrement(cs) == IF cs > 0 THEN cs - 1 ELSE cs

(* the bind of an admitted pod succeeded: the host calls PostBind *)
PostBind(tookSlot) ==
  /\ UNCHANGED aux
  /\ IF tookSlot THEN holders > 0 /\ holders' = holders - 1 /\ UNCHANGED riders
                 ELSE riders > 0 /\ riders' = riders - 1 /\ UNCHANGED holders
  /\ currentlyScheduling' = Decrement(currentlyScheduling)
  /\ ret' = NoRet
  /\ served' = NoServe
  /\ UNCHANGED <<now, cache, maxConcurrentPods, peakSchedules, pc, inflight>>

(* the bind of an admitted pod failed, or a later plugin rejected the pod:
   the plugin has no hook for that, nothing of it runs *)
BindFailed(tookSlot) ==
  /\ UNCHANGED aux
  /\ IF tookSlot THEN holders > 0 /\ holders' = holders - 1 /\ UNCHANGED riders
                 ELSE riders > 0 /\ riders' = riders - 1 /\ UNCHANGED holders
  /\ ret' = NoRet
  /\ served' = NoServe
  /\ UNCHANGED <<now, cache, currentlyScheduling, maxConcurrentPods, peakSchedules,
                 pc, inflight>>

Tick ==
  /\ UNCHANGED aux
  /\ now < MaxTime
  /\ now' = now + 1
  /\ ret' = NoRet
  /\ served' = NoServe
  /\ UNCHANGED <<cache, currentlyScheduling, maxConcurrentPods, peakSchedules,
                 pc, inflight, holders, riders>>

(* ------------------------------------------------------------------ *)
(* Specifications                                                      *)
(* ------------------------------------------------------------------ *)
Init ==
  /\ now = 0
  /\ cache = NoEntry
  /\ currentlyScheduling = 0
  /\ \E env \in MaxPodsEnv :
       /\ ~NewMaxConcurrentPods(env).err
       /\ maxConcurrentPods = NewMaxConcurrentPods(env).val
  /\ peakSchedules \in PeakConfigs
  /\ pc = [c \in Threads |-> "idle"]
  /\ inflight = [c \in Threads |-> NoPod]
  /\ holders = 0
  /\ riders = 0
  /\ ret = NoRet
  /\ served = NoServe
  /\ tracked = NoTracked
  /\ priceCache = NoEntry
  /\ pricing = NoPricing
  /\ stopCh = "open"
  /\ panicked = FALSE
  /\ powerMetrics = NoPower
  /\ peakEnabled = TRUE
  /\ tested = NoEntry

(* one PreFilter call at a time, every kind of pod *)
Next ==
  \/ Tick
  \/ \E p \in Pods : PreFilterEnter(1, p)
  \/ GetElectricityDataCheck(1)
  \/ \E r \in Responses : GetElectricityDataFetch(1, r)
  \/ \E b \in BOOLEAN : PostBind(b)
  \/ \E b \in BOOLEAN : BindFailed(b)

Spec == Init /\ [][Next]_vars

(* one PreFilter call at a time, for pods that differ in their threshold and
   initial-intensity annotations only *)
ThresholdPods == [creation : {NoTime}, skip : {""}, priceSkip : {""},
                  thr : ThrAnns \cup {NumJunk(120000)}, initial : InitAnns]

ThresholdNext ==
  \/ Tick
  \/ \E p \in ThresholdPods : PreFilterEnter(1, p)
  \/ GetElectricityDataCheck(1)
  \/ \E r \in Responses : GetElectricityDataFetch(1, r)
  \/ \E b \in BOOLEAN : PostBind(b)
  \/ \E b \in BOOLEAN : BindFailed(b)

ThresholdSpec == Init /\ [][ThresholdNext]_vars

(* one PreFilter call at a time, for pods of which some carry the
   max-scheduling-delay annotation of the example manifests, with a delay
   shorter than the configured one *)
OverridePods == [creation : {0}, skip : {""}, priceSkip : {""}, thr : {NoAnn},
                 initial : InitAnns, maxDelay : {NoAnn, Num(OwnDelay)}]

OverrideNext ==
  \/ Tick
  \/ \E p \in OverridePods : PreFilterEnter(1, p)
  \/ GetElectricityDataCheck(1)
  \/ \E r \in Responses : GetElectricityDataFetch(1, r)
  \/ \E b \in BOOLEAN : PostBind(b)
  \/ \E b \in BOOLEAN : BindFailed(b)

OverrideSpec == Init /\ [][OverrideNext]_vars

(* PreFilter calls of several scheduling cycles and the health check worker
   interleave at their lock boundaries *)
ConcPods == [creation : {NoTime}, skip : {"", "true"}, priceSkip : {""},
             thr : {NoAnn}, initial : {Format2(150006)}]

ConcResponses == {FailResp, OkResp(112500)}

ConcNext ==
  \/ Tick
  \/ \E c \in Callers, p \in ConcPods : PreFilterEnter(c, p)
  \/ \E c \in Threads : GetElectricityDataCheck(c)
  \/ \E c \in Threads, r \in ConcResponses : GetElectricityDataFetch(c, r)
  \/ HealthCheck
  \/ \E b \in BOOLEAN : PostBind(b)
  \/ \E b \in BOOLEAN : BindFailed(b)

ConcInit == Init /\ peakSchedules = <<>>

ConcSpec == ConcInit /\ [][ConcNext]_vars

(* ------------------------------------------------------------------ *)
(* Shutdown                                                            *)
(* ------------------------------------------------------------------ *)
(* Close: close(es.stopCh), which panics on a channel that is closed already,
   then the cache is cleared *)
Close ==
  /\ IF stopCh = "closed"
       THEN /\ panicked' = TRUE
            /\ UNCHANGED <<stopCh, cache>>
       ELSE /\ stopCh' = "closed"
            /\ cache' = NoEntry
            /\ UNCHANGED panicked
  /\ ret' = NoRet
  /\ served' = NoServe
  /\ UNCHANGED <<now, currentlyScheduling, maxConcurrentPods, peakSchedules, pc,
                 inflight, holders, riders, tracked, priceCache, pricing,
                 powerMetrics, peakEnabled, tested>>

(* the node deletion handler of carbonawarescheduler.go clears the cache *)
DeleteFunc ==
  /\ cache' = NoEntry
  /\ ret' = NoRet
  /\ served' = NoServe
  /\ UNCHANGED <<now, currentlyScheduling, maxConcurrentPods, peakSchedules, pc,
                 inflight, holders, riders, aux>>

(* the node deletion handler of the later revisions calls Close *)
ShutdownHandler == Close

(* a panic ends the process *)
ShutdownNext ==
  \/ ~panicked /\ Tick
  \/ ~panicked /\ Close
  \/ ~panicked /\ DeleteFunc
  \/ ~panicked /\ ShutdownHandler
  \/ ~panicked /\ HealthCheck
  \/ ~panicked /\ \E p \in ConcPods : PreFilterEnter(1, p)
  \/ ~panicked /\ \E c \in {Worker, 1} : GetElectricityDataCheck(c)
  \/ ~panicked /\ \E c \in {Worker, 1}, r \in ConcResponses : GetElectricityDataFetch(c, r)
  \/ ~panicked /\ \E b \in BOOLEAN : PostBind(b)
  \/ ~panicked /\ \E b \in BOOLEAN : BindFailed(b)

ShutdownSpec == ConcInit /\ [][ShutdownNext]_vars

(* ------------------------------------------------------------------ *)
(* GenabilityClient.GetCurrentRate and its one-hour cache               *)
(* ------------------------------------------------------------------ *)
Rates == {120, 300}

RateResponses == {FailResp} \cup {OkResp(x) : x \in Rates}

PriceCacheValid(entry, t) ==
  entry # NoEntry /\ Since(t, entry.timestamp) < PriceValidityDuration

(* a caller enters GetCurrentRate *)
GetCurrentRateCall ==
  /\ pc[1] = "idle"
  /\ pc' = [pc EXCEPT ![1] = "rate_get"]
  /\ ret' = NoRet
  /\ served' = NoServe
  /\ UNCHANGED <<now, cache, currentlyScheduling, maxConcurrentPods, peakSchedules,
                 inflight, holders, riders, aux>>

(* the read of the price cache under the read lock *)
GetCurrentRateCheck ==
  /\ pc[1] = "rate_get"
  /\ IF PriceCacheValid(priceCache, now)
     THEN /\ served' = [src |-> "rate_cache", stamp |-> priceCache.timestamp, at |-> now]
          /\ pc' = [pc EXCEPT ![1] = "idle"]
     ELSE /\ served' = [src |-> "rate_miss", stamp |-> priceCache.timestamp, at |-> now]
          /\ pc' = [pc EXCEPT ![1] = "rate_fetch"]
  /\ ret' = NoRet
  /\ UNCHANGED <<now, cache, currentlyScheduling, maxConcurrentPods, peakSchedules,
                 inflight, holders, riders, aux>>

(* fetchTOUData returns; a decoded response is stored with the time of storing *)
GetCurrentRateFetch(r) ==
  /\ pc[1] = "rate_fetch"
  /\ IF r.ok
     THEN /\ priceCache' = [data |-> r.data, timestamp |-> now]
          /\ served' = [src |-> "rate_api", stamp |-> priceCache.timestamp, at |-> now]
     ELSE /\ served' = [src |-> "rate_error", stamp |-> priceCache.timestamp, at |-> now]
          /\ UNCHANGED priceCache
  /\ pc' = [pc EXCEPT ![1] = "idle"]
  /\ ret' = NoRet
  /\ UNCHANGED <<now, cache, currentlyScheduling, maxConcurrentPods, peakSchedules,
                 inflight, holders, riders, tracked, pricing, stopCh, panicked,
                 powerMetrics, peakEnabled, tested>>

(* nothing happens for most of an hour *)
Leap ==
  /\ now <= MaxTime
  /\ now' = now + LeapMinutes
  /\ ret' = NoRet
  /\ served' = NoServe
  /\ UNCHANGED <<cache, currentlyScheduling, maxConcurrentPods, peakSchedules,
                 pc, inflight, holders, riders, aux>>

(* the two read paths with a cache in front of an upstream API: the health
   check worker reads the carbon intensity, a caller reads the rate *)
CacheNext ==
  \/ Tick
  \/ Leap
  \/ HealthCheck
  \/ GetElectricityDataCheck(Worker)
  \/ \E r \in Responses : GetElectricityDataFetch(Worker, r)
  \/ GetCurrentRateCall
  \/ GetCurrentRateCheck
  \/ \E r \in RateResponses : GetCurrentRateFetch(r)

CacheSpec == ConcInit /\ [][CacheNext]_vars

(* ------------------------------------------------------------------ *)
(* PreFilter of the compute-gardener revision (part_004): max delay,    *)
(* opt-out, pricing, carbon intensity.  The rate of the pricing         *)
(* implementation, the answer of the data cache and the answer of the   *)
(* API client are inputs of the call.                                   *)
(* ------------------------------------------------------------------ *)
(* the rates are those of Rates: the time-of-use rate is the schedule's peak
   rate inside its window and its off-peak rate outside *)
TouSchedule == [OffPeakRate |-> 120, PeakRate |-> 300]

PricingConfigs ==
  {NoPricing,
   [Enabled |-> TRUE, Impl |-> TRUE, Schedules |-> <<TouSchedule>>],
   [Enabled |-> TRUE, Impl |-> TRUE, Schedules |-> <<>>]}

PriceThrAnns == {NoAnn, BadAnn, Num(200)}

(* pods with every mix of annotations; an opted-out pod has no initial
   intensity, and its two thresholds are both absent or both ill-formed *)
GardenerPods ==
  {p \in [creation : {NoTime, 0}, skip : {"", "true"}, priceSkip : {"", "true"},
          thr : {NoAnn, BadAnn}, priceThr : PriceThrAnns, initial : InitAnns] :
     (p.skip = "true" \/ p.priceSkip = "true")
       => (p.initial = NoAnn /\ p.priceThr # Num(200) /\ p.thr = p.priceThr)}

GardenerResponses == {FailResp, OkResp(112500), OkResp(150006)}

isOptedOutEither(p) == p.skip = "true" \/ p.priceSkip = "true"

(* the outcome of a check: its status, why, and what it did to the metrics *)
Passed == [code |-> "Success", reason |-> "passed", label |-> "none", rateGauge |-> -1,
           delays |-> 0, costSavings |-> 0, src |-> "none", gauge |-> -1,
           savings |-> 0, carbonAdds |-> 0, costAdds |-> 0]

(* a variant that lets the pod pass when no schedule gives a threshold *)
checkPricingConstraintsLenient(p, rate, cfg) ==
  IF ~cfg.Impl THEN Passed
  ELSE LET t == ParseFloat(p.priceThr)
       IN IF p.priceThr # NoAnn /\ t.err
          THEN [Passed EXCEPT !.code = "Error", !.reason = "invalid_price_threshold"]
          ELSE IF p.priceThr = NoAnn /\ Len(cfg.Schedules) = 0
          THEN [Passed EXCEPT !.rateGauge = rate]
          ELSE LET threshold == IF p.priceThr # NoAnn THEN t.val
                                ELSE cfg.Schedules[1].OffPeakRate
               IN IF rate > threshold
                  THEN [Passed EXCEPT !.code = "Unschedulable",
                                      !.reason = "price_exceeded",
                                      !.rateGauge = rate, !.delays = 1,
                                      !.costSavings = rate - threshold,
                                      !.costAdds = 1]
                  ELSE [Passed EXCEPT !.rateGauge = rate]

(* a variant that defers already when the rate equals the threshold *)
checkPricingConstraintsInclusive(p, rate, cfg) ==
  IF ~cfg.Impl THEN Passed
  ELSE LET t == ParseFloat(p.priceThr)
       IN IF p.priceThr # NoAnn /\ t.err
          THEN [Passed EXCEPT !.code = "Error", !.reason = "invalid_price_threshold"]
          ELSE IF p.priceThr = NoAnn /\ Len(cfg.Schedules) = 0
          THEN [Passed EXCEPT !.code = "Error", !.reason = "no_schedules"]
          ELSE LET threshold == IF p.priceThr # NoAnn THEN t.val
                                ELSE cfg.Schedules[1].OffPeakRate
               IN IF rate >= threshold
                  THEN [Passed EXCEPT !.code = "Unschedulable",
                                      !.reason = "price_exceeded",
                                      !.rateGauge = rate, !.delays = 1,
                                      !.costSavings = rate - threshold,
                                      !.costAdds = 1]
                  ELSE [Passed EXCEPT !.rateGauge = rate]

checkPricingConstraints(p, rate, cfg) ==
  IF ~cfg.Impl THEN Passed
  ELSE LET t == ParseFloat(p.priceThr)
       IN IF p.priceThr # NoAnn /\ t.err
          THEN [Passed EXCEPT !.code = "Error", !.reason = "invalid_price_threshold"]
          ELSE IF p.priceThr = NoAnn /\ Len(cfg.Schedules) = 0
          THEN [Passed EXCEPT !.code = "Error", !.reason = "no_schedules"]
          ELSE LET threshold == IF p.priceThr # NoAnn THEN t.val
                                ELSE cfg.Schedules[1].OffPeakRate
               IN IF rate > threshold
                  THEN [Passed EXCEPT !.code = "Unschedulable",
                                      !.reason = "price_exceeded",
                                      !.rateGauge = rate, !.delays = 1,
                                      !.costSavings = rate - threshold,
                                      !.costAdds = 1]
                  ELSE [Passed EXCEPT !.rateGauge = rate]

(* found: whether cache.Get finds a usable entry; r: what the API client
   answers when it is asked *)
getCarbonIntensityData(found, entry, r) ==
  IF found /\ entry # NoEntry THEN [err |-> FALSE, data |-> entry.data, src |-> "cache"]
  ELSE IF r.ok THEN [err |-> FALSE, data |-> r.data, src |-> "api"]
  ELSE [err |-> TRUE, data |-> 0, src |-> "error"]

checkCarbonIntensityConstraints(p, found, entry, r) ==
  LET got == getCarbonIntensityData(found, entry, r)
      t == ParseFloat(p.thr)
      threshold == IF p.thr # NoAnn THEN t.val ELSE baseCarbonIntensityThreshold
      initial == ParseFloat(p.initial)
  IN IF got.err
     THEN [Passed EXCEPT !.code = "Error", !.reason = "api_error", !.label = "error",
                         !.src = got.src]
     ELSE IF p.thr # NoAnn /\ t.err
     THEN [Passed EXCEPT !.code = "Error", !.reason = "invalid_threshold",
                         !.src = got.src, !.gauge = got.data]
     ELSE IF got.data > threshold
     THEN [Passed EXCEPT !.code = "Unschedulable", !.reason = "intensity_exceeded",
                         !.label = "intensity_exceeded",
                         !.src = got.src, !.gauge = got.data,
                         !.savings = IF ~initial.err /\ got.data < initial.val
                                     THEN initial.val - got.data ELSE 0,
                         !.carbonAdds = IF ~initial.err /\ got.data < initial.val
                                        THEN 1 ELSE 0]
     ELSE [Passed EXCEPT !.src = got.src, !.gauge = got.data]

(* the two checks taken together: the carbon check runs only after the
   pricing check passed or was not asked for *)
Merge(price, carbon) ==
  [carbon EXCEPT !.rateGauge = price.rateGauge, !.delays = price.delays,
                 !.costSavings = price.costSavings, !.costAdds = price.costAdds]

(* a variant that looks at the carbon intensity before the price *)
PreFilterCarbonFirst(p, t, rate, found, entry, r, cfg) ==
  IF hasExceededMaxDelay(p, t)
  THEN [Passed EXCEPT !.reason = "max_delay", !.label = "max_delay_exceeded"]
  ELSE IF isOptedOutEither(p)
  THEN [Passed EXCEPT !.reason = "opt_out", !.label = "skipped"]
  ELSE LET carbon == checkCarbonIntensityConstraints(p, found, entry, r)
           price == IF cfg.Enabled THEN checkPricingConstraints(p, rate, cfg) ELSE Passed
       IN IF carbon.code # "Success" THEN carbon
          ELSE IF price.code # "Success" THEN Merge(price, [price EXCEPT !.src = carbon.src,
                                                                    !.gauge = carbon.gauge])
          ELSE Merge(price, carbon)

PreFilterOutcome(p, t, rate, found, entry, r, cfg) ==
  IF hasExceededMaxDelay(p, t)
  THEN [Passed EXCEPT !.reason = "max_delay", !.label = "max_delay_exceeded"]
  ELSE IF isOptedOutEither(p)
  THEN [Passed EXCEPT !.reason = "opt_out", !.label = "skipped"]
  ELSE LET price == IF cfg.Enabled THEN checkPricingConstraints(p, rate, cfg) ELSE Passed
       IN IF price.code # "Success" THEN price
          ELSE Merge(price, checkCarbonIntensityConstraints(p, found, entry, r))

(* one whole PreFilter call, made once the host has taken the result of the
   one before *)
GardenerPreFilter(p, rate, found, r) ==
  LET out == PreFilterOutcome(p, now, rate, found, cache, r, pricing)
  IN /\ ret = NoRet
     /\ ret' = [code |-> out.code, label |-> out.label, reason |-> out.reason,
                late |-> PastMaxDelay(p, now),
                skip |-> p.skip, priceSkip |-> p.priceSkip,
                thr |-> p.thr, priceThr |-> p.priceThr, initial |-> p.initial,
                rate |-> rate,
                rateGauge |-> out.rateGauge, delays |-> out.delays,
                costSavings |-> out.costSavings,
                gauge |-> out.gauge, savings |-> out.savings,
                carbonAdds |-> out.carbonAdds, costAdds |-> out.costAdds]
     /\ served' = [src |-> out.src, stamp |-> cache.timestamp, at |-> now]
     /\ cache' = IF out.src = "api" THEN [data |-> r.data, timestamp |-> now] ELSE cache
     /\ UNCHANGED <<now, currentlyScheduling, maxConcurrentPods, peakSchedules, pc,
                    inflight, holders, riders, aux>>

GardenerInit ==
  /\ now = 0
  /\ cache = NoEntry
  /\ currentlyScheduling = 0
  /\ maxConcurrentPods = defaultMaxConcurrentPods
  /\ peakSchedules = <<>>
  /\ pc = [c \in Threads |-> "idle"]
  /\ inflight = [c \in Threads |-> NoPod]
  /\ holders = 0
  /\ riders = 0
  /\ ret = NoRet
  /\ served = NoServe
  /\ tracked = NoTracked
  /\ priceCache = NoEntry
  /\ pricing \in PricingConfigs
  /\ stopCh = "open"
  /\ panicked = FALSE
  /\ powerMetrics = NoPower
  /\ peakEnabled = TRUE
  /\ tested = NoEntry

(* the host takes the status the call returned *)
Handover ==
  /\ ret # NoRet
  /\ ret' = NoRet
  /\ served' = NoServe
  /\ UNCHANGED <<now, cache, currentlyScheduling, maxConcurrentPods, peakSchedules,
                 pc, inflight, holders, riders, aux>>

(* what the node draws, in watts, as estimateNodePower reports it *)
Powers == {100, 200}

(* how long the pod ran, in hours *)
Hours == {1, 2}

(* PostBind stores the node's power as the pod's baseline *)
GardenerPostBind(baselinePower) ==
  /\ ret = NoRet
  /\ powerMetrics' = baselinePower
  /\ served' = NoServe
  /\ UNCHANGED <<now, cache, currentlyScheduling, maxConcurrentPods, peakSchedules,
                 pc, inflight, holders, riders, ret, tracked, priceCache, pricing,
                 stopCh, panicked, peakEnabled, tested>>

(* handlePodCompletion: with a baseline stored, the power above the baseline
   times the running time is added to the energy savings and, when a carbon
   reading is at hand, that energy times the intensity to the carbon savings *)
handlePodCompletion(finalPower, hours, found, r) ==
  LET hasBaseline == powerMetrics # NoPower
      got == getCarbonIntensityData(found, cache, r)
      additionalPower == finalPower - powerMetrics
      additionalEnergy == additionalPower * hours
      addsCarbon == hasBaseline /\ additionalPower > 0 /\ ~got.err
  IN /\ ret = NoRet
     /\ ret' = [code |-> "none", label |-> "none", reason |-> "completion",
                late |-> FALSE, skip |-> "", priceSkip |-> "",
                thr |-> NoAnn, priceThr |-> NoAnn, initial |-> NoAnn,
                rate |-> -1, rateGauge |-> -1, delays |-> 0,
                costSavings |-> 0, gauge |-> -1,
                savings |-> IF addsCarbon THEN additionalEnergy * got.data ELSE 0,
                carbonAdds |-> IF addsCarbon THEN 1 ELSE 0, costAdds |-> 0]
     /\ served' = IF hasBaseline
                  THEN [src |-> got.src, stamp |-> cache.timestamp, at |-> now]
                  ELSE NoServe
     /\ cache' = IF hasBaseline /\ got.src = "api"
                 THEN [data |-> r.data, timestamp |-> now] ELSE cache
     /\ UNCHANGED <<now, currentlyScheduling, maxConcurrentPods, peakSchedules, pc,
                    inflight, holders, riders, aux>>

GardenerNext ==
  \/ Tick
  \/ Handover
  \/ \E w \in Powers : GardenerPostBind(w)
  \/ \E w \in Powers, h \in Hours, found \in BOOLEAN, r \in GardenerResponses :
       handlePodCompletion(w, h, found, r)
  \/ \E p \in GardenerPods, rate \in Rates, found \in BOOLEAN, r \in GardenerResponses :
       GardenerPreFilter(p, rate, found, r)

GardenerSpec == GardenerInit /\ [][GardenerNext]_vars

(* the host retries PreFilter for one pod until it is admitted, while the
   clock advances; between two retries the initial-intensity annotation
   written by an earlier call may or may not have reached the pod *)
TrackedPods == [creation : {NoTime, 0}, skip : {""}, priceSkip : {""},
                thr : ThrAnns, initial : {NoAnn}]

Admitted == holders + riders > 0

Retry ==
  /\ ~Admitted
  /\ \E a \in InitAnns : PreFilterEnter(1, [tracked EXCEPT !.initial = a])

RetryStep ==
  \/ Retry
  \/ GetElectricityDataCheck(1)
  \/ \E r \in Responses : GetElectricityDataFetch(1, r)

FairInit ==
  /\ now = 0
  /\ cache = NoEntry
  /\ currentlyScheduling = 0
  /\ maxConcurrentPods = defaultMaxConcurrentPods
  /\ peakSchedules = <<>>
  /\ pc = [c \in Threads |-> "idle"]
  /\ inflight = [c \in Threads |-> NoPod]
  /\ holders = 0
  /\ riders = 0
  /\ ret = NoRet
  /\ served = NoServe
  /\ tracked \in TrackedPods
  /\ priceCache = NoEntry
  /\ pricing = NoPricing
  /\ stopCh = "open"
  /\ panicked = FALSE
  /\ powerMetrics = NoPower
  /\ peakEnabled = TRUE
  /\ tested = NoEntry

FairNext == Tick \/ RetryStep

FairSpec == FairInit /\ [][FairNext]_vars /\ WF_vars(Tick) /\ WF_vars(RetryStep)

(* ------------------------------------------------------------------ *)
(* The host calls PreFilter again for the same pod                     *)
(* ------------------------------------------------------------------ *)
(* the host follows one pod: it keeps what one PreFilter call for the pod
   returned, with the clock and the cache of that moment, and then calls
   PreFilter for the pod again with no other call of the plugin in between;
   the clock stands still while a call runs;
   the initial-intensity annotation written by an earlier call may or may not
   have reached the pod *)
RepeatPods == [creation : {NoTime, 0}, skip : {"", "true"}, priceSkip : {""},
               thr : ThrAnns, initial : {NoAnn}]

RepeatInit ==
  /\ now = 0
  /\ cache = NoEntry
  /\ currentlyScheduling = 0
  /\ \E env \in MaxPodsEnv :
       /\ ~NewMaxConcurrentPods(env).err
       /\ maxConcurrentPods = NewMaxConcurrentPods(env).val
  /\ peakSchedules \in PeakConfigs
  /\ pc = [c \in Threads |-> "idle"]
  /\ inflight = [c \in Threads |-> NoPod]
  /\ holders = 0
  /\ riders = 0
  /\ ret = NoRet
  /\ served = NoServe
  /\ tracked \in [pod : RepeatPods, prev : {NoRet}, cache : {NoEntry}, at : {NoTime}]
  /\ priceCache = NoEntry
  /\ pricing = NoPricing
  /\ stopCh = "open"
  /\ panicked = FALSE
  /\ powerMetrics = NoPower
  /\ peakEnabled = TRUE
  /\ tested = NoEntry

(* the host keeps the status of the call that just returned *)
Keep ==
  /\ ret # NoRet
  /\ tracked.prev = NoRet
  /\ tracked' = [tracked EXCEPT !.prev = ret, !.cache = cache, !.at = now]
  /\ ret' = NoRet
  /\ served' = NoServe
  /\ UNCHANGED <<now, cache, currentlyScheduling, maxConcurrentPods, peakSchedules,
                 pc, inflight, holders, riders, priceCache, pricing, stopCh, panicked,
                 powerMetrics, peakEnabled, tested>>

RepeatNext ==
  \/ pc[1] = "idle" /\ Tick
  \/ Keep
  \/ \E a \in InitAnns : PreFilterEnter(1, [tracked.pod EXCEPT !.initial = a])
  \/ GetElectricityDataCheck(1)
  \/ \E r \in Responses : GetElectricityDataFetch(1, r)
  \/ tracked.prev = NoRet /\ \E b \in BOOLEAN : PostBind(b)
  \/ tracked.prev = NoRet /\ \E b \in BOOLEAN : BindFailed(b)

RepeatSpec == RepeatInit /\ [][RepeatNext]_vars

(* ------------------------------------------------------------------ *)
(* peak.Scheduler (peak/scheduler.go)                                  *)
(* ------------------------------------------------------------------ *)
(* strings.TrimSpace for blanks *)
RECURSIVE TrimSpace(_)
TrimSpace(s) ==
  IF s # <<>> /\ s[1] = " " THEN TrimSpace(Tail(s))
  ELSE IF s # <<>> /\ s[Len(s)] = " " THEN TrimSpace(SubSeq(s, 1, Len(s) - 1))
  ELSE s

isDayInSchedule(current, scheduleDays) ==
  LET days == Split(scheduleDays, ",")
  IN \E i \in 1..Len(days) :
       LET dayRange == Split(TrimSpace(days[i]), "-")
       IN IF Len(dayRange) = 1
          THEN ~Atoi(dayRange[1]).err /\ Atoi(dayRange[1]).num = current
          ELSE IF Len(dayRange) = 2
          THEN LET start == Atoi(dayRange[1])
                   end == Atoi(dayRange[2])
               IN /\ ~start.err /\ ~end.err
                  /\ IF start.num > end.num
                     THEN current >= start.num \/ current <= end.num
                     ELSE current >= start.num /\ current <= end.num
          ELSE FALSE

(* hours and minutes only, compared as minutes of the day *)
isTimeInSchedule(t, schedule) ==
  LET startTime == Parse1504(schedule.StartTime)
      endTime == Parse1504(schedule.EndTime)
      currentTime == HourOf(t) * 60 + MinuteOf(t)
      startMin == startTime.hour * 60 + startTime.minute
      endMin == endTime.hour * 60 + endTime.minute
  IN IF ~isDayInSchedule(Weekday(t), schedule.DayOfWeek) THEN FALSE
     ELSE IF startTime.err \/ endTime.err THEN FALSE
     ELSE IF endMin < startMin
     THEN currentTime > startMin \/ currentTime < endMin
     ELSE currentTime > startMin /\ currentTime < endMin

IsPeakPeriod(enabled, schedules, t) ==
  IF ~enabled \/ Len(schedules) = 0 THEN FALSE
  ELSE \E i \in 1..Len(schedules) : isTimeInSchedule(t, schedules[i])

(* a window from 22:00 to 02:00 on the given days *)
NightWindow(days) ==
  [DayOfWeek |-> days,
   StartTime |-> <<"2", "2", ":", "0", "0">>,
   EndTime |-> <<"0", "2", ":", "0", "0">>]

MondayNight == NightWindow(<<"1">>)

(* a window from 09:00 to 17:00 from Friday to Monday *)
WeekendDay ==
  [DayOfWeek |-> <<"5", "-", "1">>,
   StartTime |-> <<"0", "9", ":", "0", "0">>,
   EndTime |-> <<"1", "7", ":", "0", "0">>]

WeekendNight == NightWindow(<<"5", "-", "1">>)

(* a window from 12:00 to 22:00 on every day *)
Afternoon ==
  [DayOfWeek |-> <<"0", "-", "6">>,
   StartTime |-> <<"1", "2", ":", "0", "0">>,
   EndTime |-> <<"2", "2", ":", "0", "0">>]

(* a window from 09:00 to 17:00 on Mondays *)
MondayDay == [WeekendDay EXCEPT !.DayOfWeek = <<"1">>]

WrapSchedules ==
  {<<>>, <<MondayNight>>, <<NightWindow(<<"1", ",", " ", "2">>)>>,
   <<WeekendNight>>, <<WeekendDay>>, <<Afternoon>>, <<MondayDay>>,
   <<MondayDay, Afternoon>>}

(* the instants looked at: the minutes around 02:00, 12:00, 22:00 and
   midnight of every day of one week *)
WrapInit ==
  /\ \E d \in 0..6, h \in {1, 11, 21, 23} :
       now = 10080 + d * 1440 + h * 60 + (60 - WrapMargin) - ClockStart
  /\ cache = NoEntry
  /\ currentlyScheduling = 0
  /\ maxConcurrentPods = defaultMaxConcurrentPods
  /\ peakSchedules \in WrapSchedules
  /\ pc = [c \in Threads |-> "idle"]
  /\ inflight = [c \in Threads |-> NoPod]
  /\ holders = 0
  /\ riders = 0
  /\ ret = NoRet
  /\ served = NoServe
  /\ tracked = NoTracked
  /\ priceCache = NoEntry
  /\ pricing = NoPricing
  /\ stopCh = "open"
  /\ panicked = FALSE
  /\ powerMetrics = NoPower
  /\ peakEnabled \in BOOLEAN
  /\ tested = NoEntry

(* a minute passes, around the full hour *)
Advance ==
  /\ MinuteOf(now) >= 60 - WrapMargin \/ MinuteOf(now) < WrapMargin
  /\ now' = now + 1
  /\ ret' = NoRet
  /\ served' = NoServe
  /\ UNCHANGED <<cache, currentlyScheduling, maxConcurrentPods, peakSchedules,
                 pc, inflight, holders, riders, aux>>

(* a call of IsPeakPeriod(now) *)
IsPeakPeriodCall ==
  /\ ret' = [NoRet EXCEPT !.reason = "peak_period",
                          !.label = IF IsPeakPeriod(peakEnabled, peakSchedules, now)
                                    THEN "peak" ELSE "off_peak"]
  /\ served' = NoServe
  /\ UNCHANGED <<now, cache, currentlyScheduling, maxConcurrentPods, peakSchedules,
                 pc, inflight, holders, riders, aux>>

WrapNext == Advance \/ IsPeakPeriodCall

WrapSpec == WrapInit /\ [][WrapNext]_vars

(* PreFilter of carbonawarescheduler.go, with its inline peak-hour test, at
   the same instants and under the same schedules *)
InlinePods == [creation : {NoTime}, skip : {""}, priceSkip : {""}, thr : {NoAnn},
               initial : {Format2(150006)}]

InlineNext ==
  \/ Advance
  \/ \E p \in InlinePods : PreFilterEnter(1, p)
  \/ GetElectricityDataCheck(1)
  \/ \E r \in Responses : GetElectricityDataFetch(1, r)
  \/ \E b \in BOOLEAN : PostBind(b)
  \/ \E b \in BOOLEAN : BindFailed(b)

InlineSpec == WrapInit /\ [][InlineNext]_vars

(* ------------------------------------------------------------------ *)
(* Validation of a schedule at load                                    *)
(* ------------------------------------------------------------------ *)
(* ValidateScheduleConfig of carbonawarescheduler.go: the days are split at
   the commas, every item at the hyphens into at most two parts, and every
   part must be an integer from 0 to 6 for strconv.Atoi *)
ValidateScheduleConfig(schedule) ==
  LET days == Split(schedule.DayOfWeek, ",")
      dayOk(day) ==
        LET dayRange == Split(day, "-")
        IN /\ Len(dayRange) <= 2
           /\ \A j \in 1..Len(dayRange) :
                LET parsed == Atoi(dayRange[j])
                IN ~parsed.err /\ parsed.num >= 0 /\ parsed.num <= 6
  IN IF \E i \in 1..Len(days) : ~dayOk(days[i]) THEN "invalid day"
     ELSE IF Parse1504(schedule.StartTime).err \/ Parse1504(schedule.EndTime).err
     THEN "invalid time"
     ELSE "ok"

(* validateSchedule of config/types.go: every character of the days must lie
   between '0' and '6' *)
validateSchedule(schedule) ==
  IF \E i \in 1..Len(schedule.DayOfWeek) :
       ~(IsDigit(schedule.DayOfWeek[i]) /\ DigitVal(schedule.DayOfWeek[i]) <= 6)
  THEN "invalid day"
  ELSE IF Parse1504(schedule.StartTime).err \/ Parse1504(schedule.EndTime).err
  THEN "invalid time"
  ELSE "ok"

DayChars == {"1", "5", "7", "-", ",", "x", "+"}

RECURSIVE StringsUpTo(_)
StringsUpTo(n) ==
  IF n = 0 THEN {<<>>}
  ELSE LET shorter == StringsUpTo(n - 1)
       IN shorter \cup {Append(t, c) : t \in shorter, c \in DayChars}

DaySpecs == StringsUpTo(MaxDayLen)

(* a schedule file with one schedule, whose days are any short text *)
ValidateInit ==
  /\ now = 0
  /\ cache = NoEntry
  /\ currentlyScheduling = 0
  /\ maxConcurrentPods = defaultMaxConcurrentPods
  /\ \E days \in DaySpecs :
       peakSchedules = <<[DayOfWeek |-> days,
                          StartTime |-> <<"1", "6", ":", "0", "0">>,
                          EndTime |-> <<"2", "1", ":", "0", "0">>]>>
  /\ pc = [c \in Threads |-> "idle"]
  /\ inflight = [c \in Threads |-> NoPod]
  /\ holders = 0
  /\ riders = 0
  /\ ret = NoRet
  /\ served = NoServe
  /\ tracked = NoTracked
  /\ priceCache = NoEntry
  /\ pricing = NoPricing
  /\ stopCh = "open"
  /\ panicked = FALSE
  /\ powerMetrics = NoPower
  /\ peakEnabled = TRUE
  /\ tested = NoEntry

(* the schedule is validated by the plugin *)
ValidateScheduleConfigCall ==
  /\ ret' = [NoRet EXCEPT !.reason = "ValidateScheduleConfig",
                          !.label = ValidateScheduleConfig(peakSchedules[1])]
  /\ served' = NoServe
  /\ UNCHANGED <<now, cache, currentlyScheduling, maxConcurrentPods, peakSchedules,
                 pc, inflight, holders, riders, aux>>

(* the schedule is validated by the configuration package *)
validateScheduleCall ==
  /\ ret' = [NoRet EXCEPT !.reason = "validateSchedule",
                          !.label = validateSchedule(peakSchedules[1])]
  /\ served' = NoServe
  /\ UNCHANGED <<now, cache, currentlyScheduling, maxConcurrentPods, peakSchedules,
                 pc, inflight, holders, riders, aux>>

ValidateNext == ValidateScheduleConfigCall \/ validateScheduleCall

ValidateSpec == ValidateInit /\ [][ValidateNext]_vars

(* one call at a time for pods whose own threshold lies below or above the
   readings *)
AnnotatedPods == [creation : {NoTime}, skip : {""}, priceSkip : {""},
                  thr : {NoAnn, Num(120000), Num(160000)}, initial : InitAnns]

AnnotatedNext ==
  \/ Tick
  \/ \E p \in AnnotatedPods : PreFilterEnter(1, p)
  \/ GetElectricityDataCheck(1)
  \/ \E r \in Responses : GetElectricityDataFetch(1, r)
  \/ \E b \in BOOLEAN : PostBind(b)
  \/ \E b \in BOOLEAN : BindFailed(b)

AnnotatedSpec == Init /\ [][AnnotatedNext]_vars

(* ------------------------------------------------------------------ *)
(* peak.Scheduler.GetNextPeakTransition                                *)
(* ------------------------------------------------------------------ *)
(* instants are minutes after the Sunday 00:00 the clock counts from; a
   result is the error or the transition with the flag returned beside it *)
NoTransition == [err |-> TRUE, at |-> 0, isPeak |-> FALSE]

(* the loop over the next seven days, i = 0..6 *)
RECURSIVE FindNextValidDay(_, _, _, _, _)
FindNextValidDay(t, schedule, todayStart, todayEnd, i) ==
  IF i >= 7 THEN NoTransition
  ELSE IF isDayInSchedule(Weekday(t + i * 1440), schedule.DayOfWeek)
  THEN IF ClockStart + t < todayStart + i * 1440
       THEN [err |-> FALSE, at |-> todayStart + i * 1440, isPeak |-> TRUE]
       ELSE IF ClockStart + t < todayEnd + i * 1440
       THEN [err |-> FALSE, at |-> todayEnd + i * 1440, isPeak |-> FALSE]
       ELSE FindNextValidDay(t, schedule, todayStart, todayEnd, i + 1)
  ELSE FindNextValidDay(t, schedule, todayStart, todayEnd, i + 1)

getNextTransitionForSchedule(t, schedule) ==
  LET startTime == Parse1504(schedule.StartTime)
      endTime == Parse1504(schedule.EndTime)
      today == (ClockStart + t) - ((ClockStart + t) % 1440)
      startOfDay == startTime.hour * 60 + startTime.minute
      endOfDay == endTime.hour * 60 + endTime.minute
      todayStart == today + startOfDay
      todayEnd == today + endOfDay + (IF endOfDay < startOfDay THEN 1440 ELSE 0)
  IN IF startTime.err \/ endTime.err THEN NoTransition
     ELSE FindNextValidDay(t, schedule, todayStart, todayEnd, 0)

(* the loop over the schedules keeps the earliest transition found *)
RECURSIVE NextOverSchedules(_, _, _, _)
NextOverSchedules(schedules, t, i, best) ==
  IF i > Len(schedules) THEN best
  ELSE LET found == getNextTransitionForSchedule(t, schedules[i])
       IN NextOverSchedules(schedules, t, i + 1,
            IF ~found.err /\ (best.err \/ found.at < best.at) THEN found ELSE best)

GetNextPeakTransition(enabled, schedules, t) ==
  IF ~enabled \/ Len(schedules) = 0 THEN NoTransition
  ELSE NextOverSchedules(schedules, t, 1, NoTransition)

(* a call of GetNextPeakTransition(now) *)
GetNextPeakTransitionCall ==
  /\ LET res == GetNextPeakTransition(peakEnabled, peakSchedules, now)
     IN ret' = [NoRet EXCEPT !.reason = "next_transition",
                             !.code = IF res.err THEN "Error" ELSE "Success",
                             !.label = IF res.isPeak THEN "peak" ELSE "off_peak",
                             !.gauge = res.at]
  /\ served' = NoServe
  /\ UNCHANGED <<now, cache, currentlyScheduling, maxConcurrentPods, peakSchedules,
                 pc, inflight, holders, riders, aux>>

TransitionNext == Advance \/ GetNextPeakTransitionCall

TransitionSpec == WrapInit /\ [][TransitionNext]_vars

(* ------------------------------------------------------------------ *)
(* GenabilityClient.IsPeakPeriod beside a GetCurrentRate in flight     *)
(* ------------------------------------------------------------------ *)
(* a second goroutine enters IsPeakPeriod *)
GenabilityIsPeakPeriodCall ==
  /\ pc[2] = "idle"
  /\ pc' = [pc EXCEPT ![2] = "period_test"]
  /\ tested' = NoEntry
  /\ ret' = NoRet
  /\ served' = NoServe
  /\ UNCHANGED <<now, cache, currentlyScheduling, maxConcurrentPods, peakSchedules,
                 inflight, holders, riders, tracked, priceCache, pricing, stopCh,
                 panicked, powerMetrics, peakEnabled>>

(* the age test under the read lock, which is released after it; an absent
   or expired entry sends it into GetCurrentRate, whose own test and read
   are under one read lock *)
GenabilityIsPeakPeriodTest ==
  /\ pc[2] \in {"period_test", "period_rate_get"}
  /\ IF PriceCacheValid(priceCache, now)
     THEN /\ tested' = priceCache
          /\ pc' = [pc EXCEPT ![2] = "period_read"]
     ELSE /\ tested' = NoEntry
          /\ pc' = [pc EXCEPT ![2] = IF pc[2] = "period_test" THEN "period_rate_get"
                                     ELSE "period_rate_fetch"]
  /\ ret' = NoRet
  /\ served' = NoServe
  /\ UNCHANGED <<now, cache, currentlyScheduling, maxConcurrentPods, peakSchedules,
                 inflight, holders, riders, tracked, priceCache, pricing, stopCh,
                 panicked, powerMetrics, peakEnabled>>

(* fetchTOUData of the GetCurrentRate it called returns *)
GenabilityIsPeakPeriodFetch(r) ==
  /\ pc[2] = "period_rate_fetch"
  /\ IF r.ok
     THEN /\ priceCache' = [data |-> r.data, timestamp |-> now]
          /\ pc' = [pc EXCEPT ![2] = "period_read"]
          /\ ret' = NoRet
     ELSE /\ pc' = [pc EXCEPT ![2] = "idle"]
          /\ ret' = [NoRet EXCEPT !.code = "Error", !.reason = "rate_period"]
          /\ UNCHANGED priceCache
  /\ served' = NoServe
  /\ UNCHANGED <<now, cache, currentlyScheduling, maxConcurrentPods, peakSchedules,
                 inflight, holders, riders, tracked, pricing, stopCh,
                 panicked, powerMetrics, peakEnabled, tested>>

(* the read lock is taken again and the entry then in the cache is read *)
GenabilityIsPeakPeriodRead ==
  /\ pc[2] = "period_read"
  /\ pc' = [pc EXCEPT ![2] = "idle"]
  /\ ret' = [NoRet EXCEPT !.code = "Success", !.reason = "rate_period",
                          !.gauge = priceCache.data]
  /\ served' = [src |-> "period_read", stamp |-> priceCache.timestamp, at |-> now]
  /\ UNCHANGED <<now, cache, currentlyScheduling, maxConcurrentPods, peakSchedules,
                 inflight, holders, riders, aux>>

TearNext ==
  \/ Tick
  \/ Leap
  \/ GetCurrentRateCall
  \/ GetCurrentRateCheck
  \/ \E r \in RateResponses : GetCurrentRateFetch(r)
  \/ GenabilityIsPeakPeriodCall
  \/ GenabilityIsPeakPeriodTest
  \/ \E r \in RateResponses : GenabilityIsPeakPeriodFetch(r)
  \/ GenabilityIsPeakPeriodRead

TearSpec == ConcInit /\ [][TearNext]_vars

(* ------------------------------------------------------------------ *)
(* The health check worker until shutdown                              *)
(* ------------------------------------------------------------------ *)
(* the worker's select receives from the closed stop channel: it returns *)
WorkerStop ==
  /\ UNCHANGED aux
  /\ stopCh = "closed"
  /\ pc[Worker] = "idle"
  /\ pc' = [pc EXCEPT ![Worker] = "stopped"]
  /\ ret' = NoRet
  /\ served' = NoServe
  /\ UNCHANGED <<now, cache, currentlyScheduling, maxConcurrentPods, peakSchedules,
                 inflight, holders, riders>>

(* the steps of the worker goroutine *)
WorkerStep ==
  \/ HealthCheck
  \/ GetElectricityDataCheck(Worker)
  \/ \E r \in ConcResponses : GetElectricityDataFetch(Worker, r)
  \/ WorkerStop

(* Close is called once *)
ProbeNext ==
  \/ Tick
  \/ stopCh = "open" /\ Close
  \/ HealthCheck
  \/ GetElectricityDataCheck(Worker)
  \/ \E r \in ConcResponses : GetElectricityDataFetch(Worker, r)
  \/ WorkerStop
  \/ \E p \in ConcPods : PreFilterEnter(1, p)
  \/ GetElectricityDataCheck(1)
  \/ \E r \in ConcResponses : GetElectricityDataFetch(1, r)
  \/ \E b \in BOOLEAN : PostBind(b)

(* the goroutine is scheduled and its request returns *)
ProbeSpec == ConcInit /\ [][ProbeNext]_vars /\ WF_vars(WorkerStep)

(* Close is called once and the host starts no PreFilter call after it: what
   runs after Close was in flight when it was called *)
DrainNext ==
  \/ Tick
  \/ stopCh = "open" /\ Close
  \/ HealthCheck
  \/ WorkerStop
  \/ stopCh = "open" /\ \E p \in ConcPods : PreFilterEnter(1, p)
  \/ \E c \in {Worker, 1} : GetElectricityDataCheck(c)
  \/ \E c \in {Worker, 1}, r \in ConcResponses : GetElectricityDataFetch(c, r)
  \/ \E b \in BOOLEAN : PostBind(b)

DrainSpec == ConcInit /\ [][DrainNext]_vars

(* PreFilter calls and the PostBind of every admitted pod: no bind fails *)
BindNext ==
  \/ Tick
  \/ \E p \in Pods : PreFilterEnter(1, p)
  \/ GetElectricityDataCheck(1)
  \/ \E r \in Responses : GetElectricityDataFetch(1, r)
  \/ \E b \in BOOLEAN : PostBind(b)

BindSpec == Init /\ [][BindNext]_vars

(* ------------------------------------------------------------------ *)
(* Startup: New and the loader of the configuration package           *)
(* ------------------------------------------------------------------ *)
(* the environment New reads.  A numeric variable is a token as for the
   annotations: NoAnn when unset or empty, Num(n) a text that parses to n,
   BadAnn a text that does not parse; thresholds in thousandths, the delay in
   minutes.  The schedule file is unset, unreadable, not YAML, or a list of
   schedules *)
ScheduleFiles ==
  {[kind |-> "unset", schedules |-> <<>>],
   [kind |-> "unreadable", schedules |-> <<>>],
   [kind |-> "badyaml", schedules |-> <<>>],
   [kind |-> "ok", schedules |-> <<WeekdayPeak>>],
   [kind |-> "ok", schedules |-> <<WeekdayPeak, [WeekdayPeak EXCEPT !.DayOfWeek = <<"7">>]>>]}

Envs ==
  [apiKey : {"", "key"},
   threshold : {NoAnn, Num(200000), Num(0 - 5000), BadAnn},
   maxDelay : {NoAnn, Num(60), Num(0 - 60), BadAnn},
   peakThreshold : {NoAnn, Num(100000), BadAnn},
   maxPods : MaxPodsEnv,
   scheduleFile : ScheduleFiles]

(* what New hands back: the error, or the plugin with its settings; whether
   the health check worker was started and the node handler registered *)
Aborted(env, reason, why) ==
  [code |-> "Error", reason |-> reason, label |-> why, env |-> env,
   worker |-> FALSE, handler |-> FALSE,
   base |-> 0, peak |-> 0, delay |-> 0, cap |-> 0, schedules |-> <<>>]

New(env) ==
  LET bt == ParseFloat(env.threshold)
      baseThreshold == IF env.threshold = NoAnn THEN defaultBaseThreshold ELSE bt.val
      md == ParseFloat(env.maxDelay)
      pt == ParseFloat(env.peakThreshold)
      mp == NewMaxConcurrentPods(env.maxPods)
      file == env.scheduleFile
  IN IF env.apiKey = "" THEN Aborted(env, "New", "api_key")
     ELSE IF env.threshold # NoAnn /\ bt.err THEN Aborted(env, "New", "threshold")
     ELSE IF env.maxDelay # NoAnn /\ md.err THEN Aborted(env, "New", "max_delay")
     ELSE IF env.peakThreshold # NoAnn /\ pt.err THEN Aborted(env, "New", "peak_threshold")
     ELSE IF file.kind = "unreadable" THEN Aborted(env, "New", "schedule_read")
     ELSE IF file.kind = "badyaml" THEN Aborted(env, "New", "schedule_parse")
     ELSE IF \E i \in 1..Len(file.schedules) :
               ValidateScheduleConfig(file.schedules[i]) # "ok"
     THEN Aborted(env, "New", "schedule_invalid")
     ELSE IF mp.err THEN Aborted(env, "New", "max_pods")
     ELSE [code |-> "Success", reason |-> "New", label |-> "started", env |-> env,
           worker |-> TRUE, handler |-> TRUE,
           base |-> baseThreshold,
           peak |-> IF env.peakThreshold = NoAnn THEN (baseThreshold * 75) \div 100
                    ELSE pt.val,
           delay |-> IF env.maxDelay = NoAnn THEN defaultMaxDelay ELSE md.val,
           cap |-> mp.val,
           schedules |-> file.schedules]

(* LoadFromEnv of the configuration package: a value that does not parse is
   replaced by its default, then Validate looks at the key and at the sign of
   the base threshold; peak hours and pricing are not enabled by it *)
getFloatOrDefault(token, default) ==
  IF token # NoAnn /\ ~ParseFloat(token).err THEN ParseFloat(token).val ELSE default

LoadFromEnv(env) ==
  LET base == getFloatOrDefault(env.threshold, defaultBaseThreshold)
      delay == getFloatOrDefault(env.maxDelay, defaultMaxDelay)
  IN IF env.apiKey = "" THEN Aborted(env, "LoadFromEnv", "api_key")
     ELSE IF base <= 0 THEN Aborted(env, "LoadFromEnv", "threshold")
     ELSE [code |-> "Success", reason |-> "LoadFromEnv", label |-> "loaded", env |-> env,
           worker |-> FALSE, handler |-> FALSE,
           base |-> base, peak |-> 0, delay |-> delay, cap |-> 0, schedules |-> <<>>]

(* the process starts once: nothing has been returned yet *)
NewCall ==
  /\ ret = NoRet
  /\ \E env \in Envs : ret' = New(env)
  /\ served' = NoServe
  /\ UNCHANGED <<now, cache, currentlyScheduling, maxConcurrentPods, peakSchedules,
                 pc, inflight, holders, riders, aux>>

LoadFromEnvCall ==
  /\ ret = NoRet
  /\ \E env \in Envs : ret' = LoadFromEnv(env)
  /\ served' = NoServe
  /\ UNCHANGED <<now, cache, currentlyScheduling, maxConcurrentPods, peakSchedules,
                 pc, inflight, holders, riders, aux>>

StartupNext == NewCall \/ LoadFromEnvCall

StartupSpec == ConcInit /\ [][StartupNext]_vars

(* ------------------------------------------------------------------ *)
(* The upstream request of getElectricityData                         *)
(* ------------------------------------------------------------------ *)
(* what the upstream would answer to the first, second, ... request of one
   call: a transport error, a 5xx or 4xx status, or a 200 with a body; the
   configuration carries MaxRetries *)
RetryBound == 2

Outcomes == {"transport", "5xx", "4xx", "200"}

OutcomeSeqs == [1..(RetryBound + 1) -> Outcomes]

(* one GET by client.Do; any error or non-200 status is returned at once *)
DoRequest(outcomes, maxRetries) ==
  [code |-> IF outcomes[1] = "200" THEN "Success" ELSE "Error",
   reason |-> "request",
   label |-> outcomes[1],
   outcomes |-> outcomes,
   maxRetries |-> maxRetries,
   requests |-> 1]

DoRequestCall ==
  /\ \E outcomes \in OutcomeSeqs, maxRetries \in 0..RetryBound :
       ret' = DoRequest(outcomes, maxRetries)
  /\ served' = NoServe
  /\ UNCHANGED <<now, cache, currentlyScheduling, maxConcurrentPods, peakSchedules,
                 pc, inflight, holders, riders, aux>>

RequestSpec == ConcInit /\ [][DoRequestCall]_vars

(* ------------------------------------------------------------------ *)
(* Properties of the sequential specification                          *)
(* ------------------------------------------------------------------ *)

(* C1: a PreFilter call for a pod whose creation timestamp is set and whose
   age exceeds the maximum scheduling delay returns Success, whatever the
   cache, the upstream API, the thresholds, the count of slots taken and the
   pod's annotations are *)
C1_DelayEscapeHatch ==
  (ret.code # "none" /\ ret.late) => ret.code = "Success"

(* C1 happens: an over-age pod is admitted while every slot is taken and the
   cached carbon reading has expired *)
C1_Witness ==
  /\ ret.code = "Success" /\ ret.late /\ ret.reason = "max_delay"
  /\ currentlyScheduling >= maxConcurrentPods
  /\ ~CacheValid(cache, now)

(* C3, as the specification states it: a pod within the delay limit that
   carries either skip annotation with the value "true" is admitted, counted
   as skipped, and no carbon reading is looked up or fetched for it *)
C3_OptOutEitherAnnotation ==
  (ret.code # "none" /\ ~ret.late /\ (ret.skip = "true" \/ ret.priceSkip = "true"))
    => (ret.code = "Success" /\ ret.reason = "opt_out" /\ ~ret.obtained
        /\ served = NoServe)

(* the threshold in effect for the call that just returned *)
ThresholdInEffect ==
  IF IsPeakHour(peakSchedules, now) THEN peakCarbonIntensityThreshold
  ELSE IF ret.thr = NoAnn THEN baseCarbonIntensityThreshold
  ELSE SscanfF(ret.thr).val

(* C6, amended: the concurrency gate is the last check of PreFilter.  A call
   is deferred for the cap only after it obtained a carbon reading that does
   not exceed the threshold in effect, and then exactly when every slot is
   taken at that moment; otherwise such a call is admitted and takes a slot *)
C6_GateIsLastCheck ==
  ret.code # "none" =>
    /\ ret.reason = "concurrency" =>
          /\ ret.code = "Unschedulable" /\ ~ret.slot
          /\ ~ret.late /\ ret.skip # "true"
          /\ ret.obtained /\ ret.gauge # -1 /\ ret.gauge <= ThresholdInEffect
          /\ ret.full
    /\ ret.reason = "admitted" =>
          /\ ret.code = "Success" /\ ret.slot /\ ~ret.full
          /\ ret.obtained /\ ret.gauge <= ThresholdInEffect
    /\ ret.slot => ret.reason = "admitted"

(* C6 happens: a call is deferred for the cap, with the reading in hand *)
C6_Witness ==
  /\ ret.reason = "concurrency" /\ ret.fullAtCall /\ ret.obtained
  /\ currentlyScheduling = maxConcurrentPods

(* C6, as the specification states it: a call that finds every slot taken,
   for a pod neither over-age nor opted out, is deferred for the cap without
   a carbon reading being obtained *)
C6_GateBeforeCarbon ==
  (/\ ret.code # "none" /\ ~ret.late
   /\ ret.skip # "true" /\ ret.priceSkip # "true"
   /\ ret.fullAtCall)
    => (ret.code = "Unschedulable" /\ ret.reason = "concurrency" /\ ~ret.obtained)

(* C7, as the specification states it: once no call is in progress and no
   admitted pod awaits its bind, no slot is taken *)
C7_SlotsReturn ==
  (holders = 0 /\ pc[1] = "idle") => currentlyScheduling = 0

(* C10, as the specification states it: when the upstream request fails and
   an entry younger than the maximum cache age is stored, the call does not
   end with the API error *)
C10_StaleFallback ==
  (/\ served.src = "error"
   /\ served.stamp # NoTime
   /\ served.at - served.stamp < MaxCacheAge)
    => ret.reason # "api_error"

(* ------------------------------------------------------------------ *)
(* Properties of the concurrent specification                          *)
(* ------------------------------------------------------------------ *)

(* C5: the count of slots taken is never negative and never exceeds the
   configured cap, which is at least 1, however PreFilter calls, PostBind
   calls and the health check interleave; in particular a PostBind that
   finds the count at 0 leaves it at 0, and two calls cannot both take the
   last free slot *)
C5_CountWithinCap ==
  /\ maxConcurrentPods >= 1
  /\ currentlyScheduling >= 0
  /\ currentlyScheduling <= maxConcurrentPods

(* C5 happens: a call has just taken the last free slot while another call is
   between its cache read and its own gate *)
C5_Witness ==
  /\ ret.slot
  /\ currentlyScheduling = maxConcurrentPods
  /\ \E c \in Callers : pc[c] \in {"cur_get", "cur_fetch"}

(* C8, as the specification states it: at most one upstream request is in
   flight at any instant *)
C8_SingleFlight ==
  Cardinality({c \in Threads : pc[c] \in FetchPcs}) <= 1

(* ------------------------------------------------------------------ *)
(* Properties of the retried pod                                       *)
(* ------------------------------------------------------------------ *)

(* C2, amended: if the host keeps retrying PreFilter for a pod whose creation
   timestamp is set and the clock keeps advancing, the pod is eventually
   admitted, whatever the upstream API answers and whatever the intensity
   is; and a retry made once its age exceeds the maximum delay admits it *)
C2_BoundedWaitWithTimestamp ==
  /\ (tracked.creation # NoTime) => <>Admitted
  /\ [](ret.late => ret.code = "Success")

(* C2 happens: a pod with a creation timestamp is admitted for its age, after
   retries during which no carbon reading could ever be obtained *)
C2_Witness ==
  /\ Admitted /\ ret.late /\ ret.reason = "max_delay"
  /\ tracked.creation # NoTime
  /\ cache = NoEntry

(* C2, as the specification states it: every pod the host keeps retrying is
   eventually admitted *)
C2_BoundedWait == <>Admitted

(* ------------------------------------------------------------------ *)
(* Properties of the two caches                                        *)
(* ------------------------------------------------------------------ *)

(* C9: whenever getElectricityData or GetCurrentRate answers from its cache,
   the entry is younger than the validity (5 minutes for carbon, 1 hour for
   the rate); and a read that finds no entry, or an entry at least that old,
   goes on to the upstream request *)
C9_CacheFreshness ==
  /\ served.src = "cache" =>
        /\ served.stamp # NoTime
        /\ served.at - served.stamp < CacheValidityDuration
  /\ served.src = "rate_cache" =>
        /\ served.stamp # NoTime
        /\ served.at - served.stamp < PriceValidityDuration
  /\ (/\ served.src \in {"cache", "miss"}
      /\ (served.stamp = NoTime \/ served.at - served.stamp >= CacheValidityDuration))
       => (served.src = "miss" /\ pc[Worker] = "probe_fetch")
  /\ (/\ served.src \in {"rate_cache", "rate_miss"}
      /\ (served.stamp = NoTime \/ served.at - served.stamp >= PriceValidityDuration))
       => (served.src = "rate_miss" /\ pc[1] = "rate_fetch")

(* C9 happens: the rate is answered from an entry one minute short of an
   hour old, while a carbon reading is stored too *)
C9_Witness ==
  /\ served.src = "rate_cache"
  /\ served.at - served.stamp = PriceValidityDuration - 1
  /\ cache # NoEntry

(* ------------------------------------------------------------------ *)
(* Properties of the compute-gardener PreFilter                        *)
(* ------------------------------------------------------------------ *)
PricingStops == {"price_exceeded", "invalid_price_threshold", "no_schedules"}

CarbonStops == {"api_error", "invalid_threshold", "intensity_exceeded"}

(* C4: PreFilter checks max delay, then opt-out, then (when pricing is
   enabled) the price, then the carbon intensity, and returns at the first
   check that does not pass.  A call stopped by the pricing check has read no
   carbon cache entry, asked no upstream API, and left the carbon gauge, the
   attempt counters and the carbon savings alone; a call that got as far as
   the carbon check has passed every earlier one *)
C4_OrderedPipeline ==
  ret.code # "none" =>
    /\ ret.late => (ret.reason = "max_delay" /\ ret.code = "Success")
    /\ (~ret.late /\ (ret.skip = "true" \/ ret.priceSkip = "true"))
         => (ret.reason = "opt_out" /\ ret.code = "Success")
    /\ ret.reason \in {"max_delay", "opt_out"}
         => (served.src = "none" /\ ret.rateGauge = -1 /\ ret.gauge = -1)
    /\ ret.reason \in PricingStops =>
         /\ pricing.Enabled
         /\ ret.code # "Success"
         /\ served.src = "none"
         /\ ret.gauge = -1 /\ ret.label = "none" /\ ret.savings = 0
    /\ (ret.reason \in CarbonStops \/ ret.reason = "passed") =>
         /\ ~ret.late /\ ret.skip # "true" /\ ret.priceSkip # "true"
         /\ ret.delays = 0 /\ ret.costSavings = 0
         /\ pricing.Enabled => ret.rateGauge # -1
         /\ served.src # "none"
    /\ ret.code = "Success" <=> ret.reason \in {"max_delay", "opt_out", "passed"}

(* C4 happens: the pricing check defers a pod while no carbon reading is
   cached, so that the carbon check would have had to ask the API *)
C4_Witness ==
  /\ ret.reason = "price_exceeded" /\ ret.code = "Unschedulable"
  /\ ret.delays = 1
  /\ cache = NoEntry
  /\ served.src = "none"

(* ------------------------------------------------------------------ *)
(* Properties of the carbon check                                      *)
(* ------------------------------------------------------------------ *)

(* a call returned with a carbon reading in hand, outside every peak window *)
ReadingOffPeak ==
  ret.code # "none" /\ ret.obtained /\ ret.gauge # -1
  /\ ~IsPeakHour(peakSchedules, now)

(* C11, amended: outside peak windows, a call that has a reading defers for
   the intensity exactly when the intensity exceeds the threshold, which is
   the number read from the threshold annotation when the annotation is
   present and the base threshold when it is absent; an equal intensity
   passes.  An annotation that holds no number ends the call with Error
   whatever the intensity, and a pod that passes may still be deferred
   because every slot is taken *)
C11_CarbonCheck ==
  ReadingOffPeak =>
    /\ ret.thr = NoAnn =>
          (ret.reason = "intensity_base" <=> ret.gauge > baseCarbonIntensityThreshold)
    /\ ret.thr.kind \in {"num", "numjunk"} =>
          (ret.reason = "intensity_base" <=> ret.gauge > ret.thr.val)
    /\ ret.thr = BadAnn => (ret.code = "Error" /\ ret.reason = "invalid_threshold")
    /\ ret.reason = "intensity_base" => ret.code = "Unschedulable"
    /\ ret.reason # "intensity_peak"
    /\ (ret.code = "Unschedulable" /\ ret.reason # "intensity_base")
         => (ret.reason = "concurrency" /\ ret.full)

(* C11 happens: an intensity equal to the base threshold passes *)
C11_Witness ==
  /\ ReadingOffPeak /\ ret.thr = NoAnn
  /\ ret.gauge = baseCarbonIntensityThreshold
  /\ ret.code = "Success"

(* C11, as the specification states it: the call is Unschedulable exactly
   when the intensity exceeds the annotation's number, or the base threshold
   when the annotation is absent or holds no number *)
C11_UnschedulableIffExceeds ==
  ReadingOffPeak =>
    (ret.code = "Unschedulable"
       <=> ret.gauge > (IF SscanfF(ret.thr).err THEN baseCarbonIntensityThreshold
                        ELSE SscanfF(ret.thr).val))

(* ------------------------------------------------------------------ *)
(* Properties of the pricing check                                     *)
(* ------------------------------------------------------------------ *)

(* a call returned after it ran the pricing check *)
PricingChecked ==
  /\ ret.code # "none" /\ pricing.Enabled /\ pricing.Impl
  /\ ~ret.late /\ ret.skip # "true" /\ ret.priceSkip # "true"

(* C12, amended: with pricing enabled the check defers exactly when the rate
   exceeds the threshold, which is the pod's price-threshold annotation when
   it is present and a number, and otherwise the off-peak rate of the first
   configured schedule, whatever the period; an equal rate passes, and the
   call goes on to the carbon check *)
C12_PricingCheck ==
  PricingChecked =>
    /\ ret.priceThr.kind = "num" =>
          (ret.reason = "price_exceeded" <=> ret.rate > ret.priceThr.val)
    /\ (ret.priceThr = NoAnn /\ Len(pricing.Schedules) > 0) =>
          (ret.reason = "price_exceeded" <=> ret.rate > pricing.Schedules[1].OffPeakRate)
    /\ ret.reason = "price_exceeded" =>
          (ret.code = "Unschedulable" /\ ret.rateGauge = ret.rate)
    /\ (ret.code = "Unschedulable" /\ ret.reason # "price_exceeded")
         => ret.reason = "intensity_exceeded"

(* C12 happens: a rate equal to the off-peak rate passes the pricing check *)
C12_Witness ==
  /\ PricingChecked /\ ret.priceThr = NoAnn /\ Len(pricing.Schedules) > 0
  /\ ret.rate = pricing.Schedules[1].OffPeakRate
  /\ ret.rateGauge = ret.rate
  /\ ret.reason \notin PricingStops

(* C12, as the specification states it: without an annotation the threshold
   is that of the current period, the peak one in a peak period *)
C12_PeriodThreshold ==
  (PricingChecked /\ ret.priceThr = NoAnn /\ Len(pricing.Schedules) > 0) =>
    (ret.reason = "price_exceeded"
       <=> ret.rate > (IF ret.rate = pricing.Schedules[1].PeakRate
                       THEN pricing.Schedules[1].PeakRate
                       ELSE pricing.Schedules[1].OffPeakRate))

(* C13: with pricing enabled, a pod without a price-threshold annotation and
   a configuration without a pricing schedule make the pricing check end the
   call with Error, for every rate: the pod is neither admitted nor deferred,
   and the carbon check is not reached *)
C13_MissingPricingConfig ==
  (PricingChecked /\ ret.priceThr = NoAnn /\ Len(pricing.Schedules) = 0) =>
    /\ ret.code = "Error" /\ ret.reason = "no_schedules"
    /\ ret.delays = 0 /\ ret.costSavings = 0
    /\ served.src = "none"

(* C13 happens: the Error is returned for the lowest rate, with a carbon
   reading cached that would have let the pod pass *)
C13_Witness ==
  /\ PricingChecked /\ ret.priceThr = NoAnn /\ Len(pricing.Schedules) = 0
  /\ ret.code = "Error"
  /\ ret.rate = 120
  /\ cache # NoEntry /\ cache.data <= baseCarbonIntensityThreshold

(* ------------------------------------------------------------------ *)
(* Properties of the max-delay check                                   *)
(* ------------------------------------------------------------------ *)

(* C14, as the specification states it: a pod whose age exceeds the delay of
   its own max-scheduling-delay annotation is admitted, also when that delay
   is shorter than the configured one *)
C14_OwnDelayHonoured ==
  (ret.code # "none" /\ ret.lateOwn) => ret.code = "Success"

(* ------------------------------------------------------------------ *)
(* Properties of the shutdown                                          *)
(* ------------------------------------------------------------------ *)

(* C15, as the specification states it: Close is idempotent, a second Close,
   called directly or by the node deletion handler, returns normally and
   nothing panics *)
C15_CloseIdempotent == ~panicked

(* ------------------------------------------------------------------ *)
(* Properties of repeated calls                                        *)
(* ------------------------------------------------------------------ *)
(* what the status of a call tells: its code, why, and the numbers of its
   message *)
Message(r) ==
  <<r.code, r.reason,
    IF r.reason \in {"intensity_base", "intensity_peak"} THEN r.gauge ELSE -1,
    IF r.reason \in {"intensity_base", "intensity_peak"} THEN r.savings ELSE 0>>

(* the call that just returned follows the call the host kept, for the same
   pod, with the clock and the cache as they were then *)
SecondCall ==
  /\ ret.code # "none"
  /\ tracked.prev.code # "none"
  /\ tracked.at = now
  /\ tracked.cache = cache

(* C16, amended: with the clock, the cache and the configuration as they were
   and no other call in between, the second of two successive PreFilter calls
   for the same pod returns the code and the message of the first, provided
   the concurrency cap is reached at both calls or at neither *)
C16_DeterminismSameGate ==
  (SecondCall /\ tracked.prev.full = ret.full) => Message(ret) = Message(tracked.prev)

(* C16 happens: two calls in a row are deferred for the same carbon
   intensity, and two in a row are admitted *)
C16_Witness ==
  /\ SecondCall
  /\ tracked.prev.full = ret.full
  /\ ret.reason = "intensity_base"
  /\ tracked.prev.reason = "intensity_base"

(* C16, as the specification states it: the second call returns the code and
   the message of the first *)
C16_Determinism ==
  SecondCall => Message(ret) = Message(tracked.prev)

(* ------------------------------------------------------------------ *)
(* Properties of a failed or cancelled upstream request                *)
(* ------------------------------------------------------------------ *)
(* C17, amended: when the request to the upstream API ends with an error, as
   it does when the context of the PreFilter call is cancelled while the call
   waits for it, the call returns Error; the cache entry and the count of
   in-flight pods are as before, the call takes no slot and adds nothing to
   the savings counters, and the scheduling-attempt counter of the label
   "error" is incremented *)
C17_CancelledFetchCountsAnError ==
  [][ret'.reason = "api_error" =>
       /\ ret'.code = "Error"
       /\ cache' = cache
       /\ currentlyScheduling' = currentlyScheduling
       /\ ~ret'.slot
       /\ ret'.savings = 0
       /\ ret'.label = "error"]_vars

(* C17 happens: the request fails while an expired cache entry is stored and
   a slot is taken *)
C17_Witness ==
  /\ ret.reason = "api_error"
  /\ served.src = "error"
  /\ cache # NoEntry
  /\ currentlyScheduling > 0

(* C17, as the specification states it: the cancelled call leaves the cache
   entry, the count of in-flight pods, the scheduling-attempt counters and the
   savings counters exactly as they were *)
C17_CancelledFetchLeavesNoTrace ==
  [][ret'.reason = "api_error" =>
       /\ ret'.code = "Error"
       /\ cache' = cache
       /\ currentlyScheduling' = currentlyScheduling
       /\ ret'.savings = 0
       /\ ret'.label = "none"]_vars

(* ------------------------------------------------------------------ *)
(* Properties of an annotation that is not a number                    *)
(* ------------------------------------------------------------------ *)
(* C18, as the specification states it: a call for a pod that is neither past
   the delay limit nor opted out and whose carbon-intensity-threshold
   annotation is present but not a number returns Error, takes no slot and
   adds nothing to the savings counters *)
C18_InvalidAnnotationIsError ==
  (/\ ret.code # "none"
   /\ ~ret.late
   /\ ret.skip # "true"
   /\ ret.thr.kind \in {"bad", "numjunk"})
    => (ret.code = "Error" /\ ~ret.slot /\ ret.savings = 0)

(* ------------------------------------------------------------------ *)
(* Properties of the savings counters                                  *)
(* ------------------------------------------------------------------ *)
(* C19: whatever PreFilter, PostBind or the completion of a pod adds to the
   carbon savings or to the cost savings is strictly positive, and a call
   that adds nothing leaves them as they are: the counters never decrease *)
C19_MonotoneSavings ==
  ret # NoRet =>
    /\ ret.savings >= 0
    /\ ret.costSavings >= 0
    /\ ret.carbonAdds > 0 <=> ret.savings > 0
    /\ ret.costAdds > 0 <=> ret.costSavings > 0

(* C19 happens: a deferral for the price adds the excess of the rate to the
   cost savings *)
C19_Witness ==
  /\ ret # NoRet
  /\ ret.reason = "price_exceeded"
  /\ ret.costAdds = 1
  /\ ret.costSavings > 0

(* ------------------------------------------------------------------ *)
(* Properties of peak.Scheduler                                        *)
(* ------------------------------------------------------------------ *)
(* C20, as the specification states it: with the one window 22:00 to 02:00 on
   Monday, an instant is inside the window on Monday from 22:00 to midnight
   and on Tuesday from midnight to 02:00, although Tuesday is not listed, and
   outside between 02:00 and 22:00 *)
C20_WrapPastMidnight ==
  (ret.reason = "peak_period" /\ peakEnabled /\ peakSchedules = <<MondayNight>>) =>
    LET minuteOfDay == HourOf(now) * 60 + MinuteOf(now)
    IN /\ (Weekday(now) = 1 /\ minuteOfDay >= 22 * 60) => ret.label = "peak"
       /\ (Weekday(now) = 2 /\ minuteOfDay < 2 * 60) => ret.label = "peak"
       /\ (minuteOfDay >= 2 * 60 /\ minuteOfDay < 22 * 60) => ret.label = "off_peak"

(* the minute of the day of the instant now *)
MinuteOfDay == HourOf(now) * 60 + MinuteOf(now)

(* C21, as the specification states it: under the schedule of the days "5-1"
   from 09:00 to 17:00, a call that reads a carbon intensity above the peak
   threshold between 09:00 and 17:00 is judged by the peak threshold exactly
   on Friday, Saturday, Sunday and Monday *)
C21_DayRangeWrapsTheWeek ==
  (/\ ret.code # "none" /\ ret.obtained /\ ret.gauge > baseCarbonIntensityThreshold
   /\ peakSchedules = <<WeekendDay>>
   /\ MinuteOfDay > 9 * 60 /\ MinuteOfDay < 17 * 60)
    => (ret.reason = "intensity_peak" <=> Weekday(now) \in {5, 6, 0, 1})

(* C22, as the specification states it: a window contains its start minute
   and not its end minute.  Under the window 12:00 to 22:00 of every day an
   instant is inside exactly from 12:00 to 21:59; under the window 22:00 to
   02:00 of the days "5-1" an instant of one of these days is inside exactly
   from 22:00 on and before 02:00 *)
C22_HalfOpenWindow ==
  (ret.reason = "peak_period" /\ peakEnabled) =>
    /\ peakSchedules = <<Afternoon>> =>
         (ret.label = "peak" <=> (MinuteOfDay >= 12 * 60 /\ MinuteOfDay < 22 * 60))
    /\ (peakSchedules = <<WeekendNight>> /\ Weekday(now) \in {5, 6, 0, 1}) =>
         (ret.label = "peak" <=> (MinuteOfDay >= 22 * 60 \/ MinuteOfDay < 2 * 60))

(* ------------------------------------------------------------------ *)
(* Properties of the validation at load                                *)
(* ------------------------------------------------------------------ *)
(* the day texts of the specification: a list, separated by commas, of items
   that are one digit from 0 to 6 or two such digits with a hyphen between *)
DayDigit(c) == IsDigit(c) /\ DigitVal(c) <= 6

DaySpecOK(days) ==
  LET items == Split(days, ",")
  IN \A i \in 1..Len(items) :
       \/ Len(items[i]) = 1 /\ DayDigit(items[i][1])
       \/ /\ Len(items[i]) = 3
          /\ DayDigit(items[i][1]) /\ items[i][2] = "-" /\ DayDigit(items[i][3])

(* C23, as the specification states it: the validation of a schedule accepts
   its days exactly when they are such a list *)
C23_DaySpecValidation ==
  ret.reason \in {"ValidateScheduleConfig", "validateSchedule"} =>
    (ret.label = "ok" <=> DaySpecOK(peakSchedules[1].DayOfWeek))

(* ------------------------------------------------------------------ *)
(* Properties of the startup                                           *)
(* ------------------------------------------------------------------ *)
(* what the specification calls a bad configuration: no key, a value that
   does not parse or is out of range, a schedule file that cannot be read or
   holds an invalid schedule *)
Unparseable(token) == token # NoAnn /\ ParseFloat(token).err

OutOfRange(token) == token # NoAnn /\ ~ParseFloat(token).err /\ ParseFloat(token).val <= 0

BadEnv(env) ==
  \/ env.apiKey = ""
  \/ Unparseable(env.threshold) \/ OutOfRange(env.threshold)
  \/ Unparseable(env.maxDelay) \/ OutOfRange(env.maxDelay)
  \/ Unparseable(env.peakThreshold) \/ OutOfRange(env.peakThreshold)
  \/ NewMaxConcurrentPods(env.maxPods).err
  \/ env.scheduleFile.kind \in {"unreadable", "badyaml"}
  \/ \E i \in 1..Len(env.scheduleFile.schedules) :
       ~DaySpecOK(env.scheduleFile.schedules[i].DayOfWeek)

(* C24, as the specification states it: startup on a bad configuration ends
   with an error, without a worker started or a handler registered, and never
   with a default in the place of an invalid value *)
C24_StartupAborts ==
  (ret.reason \in {"New", "LoadFromEnv"} /\ BadEnv(ret.env)) =>
    (ret.code = "Error" /\ ~ret.worker /\ ~ret.handler)

(* ------------------------------------------------------------------ *)
(* Properties of the upstream request                                  *)
(* ------------------------------------------------------------------ *)
Transient(o) == o \in {"transport", "5xx"}

(* the number of requests the retry policy makes: it stops at the first
   answer that is not transient, and after 1 + maxRetries requests *)
RECURSIVE PolicyRequests(_, _, _)
PolicyRequests(outcomes, maxRetries, i) ==
  IF i > maxRetries \/ ~Transient(outcomes[i]) THEN i
  ELSE PolicyRequests(outcomes, maxRetries, i + 1)

(* C25, as the specification states it: a transport error or a 5xx is retried
   up to maxRetries times, a 4xx fails at once; a call makes at most
   1 + maxRetries requests and exactly one on a 4xx *)
C25_RetryPolicy ==
  ret.reason = "request" =>
    /\ ret.requests = PolicyRequests(ret.outcomes, ret.maxRetries, 1)
    /\ ret.label = ret.outcomes[ret.requests]

(* ------------------------------------------------------------------ *)
(* Properties of the slot accounting                                   *)
(* ------------------------------------------------------------------ *)
(* C26: a PreFilter call that returns a deferral, an error, a max-delay
   admission or an opt-out admission leaves currentlyScheduling as it was; the
   admission after all threshold checks raises it by exactly one, in the step
   in which the call returns, and nothing else raises it *)
C26_SlotOnlyOnThresholdAdmission ==
  [][/\ ret' # NoRet =>
          currentlyScheduling' =
            IF ret'.reason = "admitted" THEN currentlyScheduling + 1
            ELSE currentlyScheduling
     /\ currentlyScheduling' > currentlyScheduling =>
          /\ ret'.reason = "admitted" /\ ret'.code = "Success" /\ ret'.obtained
          /\ \E c \in Callers : pc[c] # "idle" /\ pc'[c] = "idle"]_vars

C26_Witness ==
  /\ ret.reason = "admitted" /\ ret.slot /\ ~ret.late /\ ret.skip # "true"
  /\ currentlyScheduling = 1
  /\ riders > 0

(* C27, as the specification states it: with PreFilter and PostBind
   interleaving for gated, opted-out and max-delay pods, the pods that took a
   slot and are not yet bound are at most maxConcurrentPods, and
   currentlyScheduling is their number *)
C27_CapBoundsSlotHolders ==
  /\ holders <= maxConcurrentPods
  /\ currentlyScheduling = holders

(* ------------------------------------------------------------------ *)
(* Properties of the cache under failures and shutdown                 *)
(* ------------------------------------------------------------------ *)
(* C28: when a fetch started by PreFilter or by the health probe fails, the
   cache entry, reading and timestamp, is exactly what it was before *)
C28_FailedRefreshKeepsEntry ==
  [][served'.src = "error" => cache' = cache]_vars

C28_Witness ==
  /\ served.src = "error" /\ ret = NoRet
  /\ cache # NoEntry /\ cache.timestamp = served.stamp
  /\ ~CacheValid(cache, now)
  /\ \E c \in Callers : pc[c] \in FetchPcs

(* C29: once Close was called the health check worker eventually returns and
   starts no probe any more; until then it goes on probing, and a failed
   probe does not end it *)
C29_ShutdownStopsTheProbe ==
  /\ (stopCh = "closed") ~> (pc[Worker] = "stopped")
  /\ [][stopCh = "closed" => ~(pc[Worker] = "idle" /\ pc'[Worker] = "probe_get")]_vars
  /\ (stopCh = "open" /\ pc[Worker] = "idle") ~>
       (pc[Worker] = "probe_get" \/ stopCh = "closed")
  /\ [](pc[Worker] = "stopped" => stopCh = "closed")

C29_Witness ==
  /\ stopCh = "closed" /\ pc[Worker] = "stopped"
  /\ now > 0
  /\ \E c \in Callers : pc[c] \in FetchPcs

(* C30, as the specification states it: after Close the cache stays empty; a
   PreFilter call or a probe that was in flight when Close ran stores no
   reading afterwards *)
C30_CacheStaysCleared ==
  stopCh = "closed" => cache = NoEntry

(* C31, as the specification states it: a reader of a cache returns the
   reading of the very entry whose timestamp it tested for freshness, whatever
   writers run beside it *)
C31_NoTornRead ==
  (served.src = "period_read" /\ tested # NoEntry) =>
    (tested.timestamp = served.stamp /\ tested.data = ret.gauge)

(* ------------------------------------------------------------------ *)
(* Properties of the peak threshold                                    *)
(* ------------------------------------------------------------------ *)
(* a window of the specification: the weekday is one of the schedule's days
   and the minute of the day is at or after the start and before the end *)
DayListed(schedule, wd) ==
  LET days == Split(schedule.DayOfWeek, ",")
  IN \E i \in 1..Len(days) :
       LET r == Split(TrimSpace(days[i]), "-")
           lo == Atoi(r[1]).num
           hi == IF Len(r) > 1 THEN Atoi(r[2]).num ELSE lo
       IN IF lo <= hi THEN wd >= lo /\ wd <= hi ELSE wd >= lo \/ wd <= hi

InsideWindow(schedule, t) ==
  LET from == Parse1504(schedule.StartTime).hour * 60 + Parse1504(schedule.StartTime).minute
      to == Parse1504(schedule.EndTime).hour * 60 + Parse1504(schedule.EndTime).minute
      m == HourOf(t) * 60 + MinuteOf(t)
  IN /\ DayListed(schedule, Weekday(t))
     /\ IF from <= to THEN m >= from /\ m < to ELSE m >= from \/ m < to

PeakNow == \E i \in 1..Len(peakSchedules) : InsideWindow(peakSchedules[i], now)

AnnotatedOrBase ==
  IF ret.thr = NoAnn THEN baseCarbonIntensityThreshold ELSE ret.thr.val

(* a call that came to compare the reading with a threshold *)
Compared ==
  ret.reason \in {"intensity_peak", "intensity_base", "concurrency", "admitted"}

(* C32: the carbon check compares the reading with the peak threshold exactly
   when schedules are configured and now lies inside one of their windows,
   and with the annotated or base threshold in every other case *)
C32_PeakThresholdSubstitution ==
  Compared =>
    LET applied == IF PeakNow THEN peakCarbonIntensityThreshold ELSE AnnotatedOrBase
    IN /\ (ret.code = "Unschedulable" /\ ret.reason # "concurrency") <=> ret.gauge > applied
       /\ ret.reason = "intensity_peak" => (PeakNow /\ ret.savings = ret.gauge - applied)
       /\ ret.reason = "intensity_base" => (~PeakNow /\ ret.savings = ret.gauge - applied)

C32_Witness ==
  /\ ret.reason = "intensity_peak" /\ ret.thr = NoAnn
  /\ ret.gauge <= baseCarbonIntensityThreshold
  /\ MinuteOfDay = 16 * 60

(* C33: while now lies inside a peak window the threshold applied to a pod
   with a threshold annotation is the peak threshold and not the annotated
   value: the decision depends on the reading and on the free slots only, so
   pods with different annotations get the same decision *)
C33_PeakReplacesOwnThreshold ==
  (Compared /\ PeakNow /\ ret.thr # NoAnn) =>
    /\ ret.reason =
         IF ret.gauge > peakCarbonIntensityThreshold THEN "intensity_peak"
         ELSE IF ret.full THEN "concurrency" ELSE "admitted"
    /\ ret.code = IF ret.reason = "admitted" THEN "Success" ELSE "Unschedulable"
    /\ ret.reason = "intensity_peak" =>
         ret.savings = ret.gauge - peakCarbonIntensityThreshold

C33_Witness ==
  /\ PeakNow /\ ret.thr = Num(160000)
  /\ ret.gauge < 160000 /\ ret.gauge > peakCarbonIntensityThreshold
  /\ ret.reason = "intensity_peak" /\ ret.code = "Unschedulable"

(* ------------------------------------------------------------------ *)
(* Properties of the scheduling-attempt counter                        *)
(* ------------------------------------------------------------------ *)
(* C34, as the specification states it: every PreFilter call increments one
   label of the scheduling-attempt counter, the one of the outcome it
   returns, a deferral at the concurrency cap included *)
C34_OneOutcomeCounter ==
  ret.code # "none" =>
    /\ ret.label # "none"
    /\ ret.reason = "max_delay" => ret.label = "max_delay_exceeded"
    /\ ret.reason = "opt_out" => ret.label = "skipped"
    /\ ret.reason = "api_error" => ret.label = "error"
    /\ ret.reason = "invalid_threshold" => ret.label = "invalid_threshold"
    /\ ret.reason \in {"intensity_peak", "intensity_base"} => ret.label = "intensity_exceeded"
    /\ ret.reason = "admitted" => ret.label = "success"

(* ------------------------------------------------------------------ *)
(* Properties of the initial-intensity annotation                      *)
(* ------------------------------------------------------------------ *)
(* C35: a pod that carries the initial-intensity annotation keeps its value
   through every step of a PreFilter call, whatever reading the call
   observes; the annotation is written only while it is absent, by the
   first read of the call *)
C35_InitialIntensityWriteOnce ==
  [][\A c \in Callers :
       (pc[c] # "idle" /\ pc'[c] # "idle") =>
         /\ inflight[c].initial # NoAnn => inflight'[c].initial = inflight[c].initial
         /\ inflight'[c].initial # inflight[c].initial =>
              pc[c] \in {"init_get", "init_fetch"}]_vars

C35_Witness ==
  /\ pc[1] = "cur_fetch"
  /\ inflight[1].initial = Format2(150006)
  /\ cache # NoEntry /\ cache.data = 112500
  /\ served.src = "miss"

(* C36: when the update of the pod that persists the initial-intensity
   annotation failed, the call returns what it returns for the same pod, the
   same reading and the same count after an update that succeeded *)
C36_BestEffortWriteBack ==
  [][\A c \in Callers :
       (pc[c] \in {"cur_get", "cur_fetch"} /\ pc'[c] = "idle" /\ inflight[c].updateErr) =>
         LET updated == [inflight[c] EXCEPT !.updateErr = FALSE]
         IN IF ret'.reason = "api_error"
            THEN ret' = Result("Error", "error", "api_error", updated, TRUE, FALSE,
                               currentlyScheduling >= maxConcurrentPods, 0, -1)
            ELSE ret' = Decide(updated, ret'.gauge, now, currentlyScheduling,
                               maxConcurrentPods, peakSchedules)]_vars

C36_Witness ==
  /\ pc[1] = "cur_fetch" /\ inflight[1].updateErr
  /\ inflight[1].initial = Format2(150006)
  /\ inflight[1].thr = BadAnn

(* ------------------------------------------------------------------ *)
(* Properties of the next peak transition                              *)
(* ------------------------------------------------------------------ *)
(* the starts and ends of the windows of a schedule from yesterday to a week
   from now, as instants: a window starts on each day of the schedule and
   ends on the same day, or on the next one when it passes midnight *)
WindowBounds(schedule, t) ==
  LET today == (ClockStart + t) - ((ClockStart + t) % 1440)
      from == Parse1504(schedule.StartTime).hour * 60 + Parse1504(schedule.StartTime).minute
      to == Parse1504(schedule.EndTime).hour * 60 + Parse1504(schedule.EndTime).minute
      days == {d \in -1..7 : DayListed(schedule, Weekday(t + d * 1440))}
  IN {today + d * 1440 + from : d \in days}
       \cup {today + d * 1440 + to + (IF to < from THEN 1440 ELSE 0) : d \in days}

ComingBounds ==
  {u \in UNION {WindowBounds(peakSchedules[i], now) : i \in 1..Len(peakSchedules)} :
     u > ClockStart + now}

(* C37, as the specification states it: with peak hours enabled and a
   schedule with valid times that matches a weekday, GetNextPeakTransition
   returns no error, and the instant it returns is later than now and is the
   earliest start or end of a window after now *)
C37_NextTransitionFound ==
  (ret.reason = "next_transition" /\ peakEnabled /\ peakSchedules # <<>>) =>
    /\ ret.code = "Success"
    /\ ret.gauge > ClockStart + now
    /\ ret.gauge \in ComingBounds
    /\ \A u \in ComingBounds : ret.gauge <= u

====
